---- MODULE Spec2Model ----
(***************************************************************************)
(* deepgrep: the evaluation suite (deepgrep/metrics/__init__.py), the      *)
(* vector store (deepgrep/ml/vector_store.py) and the chunker and         *)
(* pipeline (deepgrep/ml/rag.py).                                          *)
(*                                                                         *)
(* Numbers.  The metric functions return Python floats.  They are         *)
(* modelled as exact rationals <<numerator, denominator>> with a positive *)
(* denominator; <<1, 0>> stands for a raised ZeroDivisionError.  Rounding *)
(* of the float operations is not modelled.  np.log2 is irrational: the   *)
(* discount 1 / np.log2(i + 2) is modelled in fixed point with six        *)
(* decimals (Discount), so DCG and IDCG are integers on that scale.       *)
(***************************************************************************)
EXTENDS Integers, Sequences, FiniteSets, TLC

VARIABLES
    fn,                \* the function or method called last, "none" at first
    ret,               \* what that call returned or raised
    retrieved,         \* argument `retrieved` (a set of ids)
    relevant,          \* argument `relevant` (a set of ids)
    retrieved_ranked,  \* argument `retrieved_ranked` (a list of ids)
    queries_results,   \* argument `queries_results` (list of <<ranked, relevant>>)
    relevance_scores,  \* argument `relevance_scores` (a dict id -> score)
    k,                 \* argument `k` of ndcg
    dimension,         \* VectorStore.dimension
    index_type,        \* VectorStore.index_type
    index,             \* the vectors held by VectorStore.index, in id order
    index_d,           \* VectorStore.index.d, the width the faiss index accepts
    documents,         \* VectorStore.documents
    is_trained,        \* VectorStore.index.is_trained
    metadata,          \* VectorStore.metadata
    args,              \* the arguments of the last VectorStore call
    raised,            \* the exception the last call raised, "none" if it returned
    disk,              \* the files index.faiss and data.pkl of the snapshot directory
    encoded,           \* the texts the last call passed to EmbeddingEngine.encode
    threads,           \* the calls in progress, by thread
    objects,           \* the dict object each entry of VectorStore.metadata refers to
    search_logs,       \* the rows of table search_logs, by ascending id
    sqlite_sequence,   \* the highest id table search_logs has given out
    json_file,         \* the records of the JSON file of export and import
    semantic_engine,   \* global semantic_engine of the web app
    history_db         \* global history_db of the web app

metricVars == <<retrieved, relevant, retrieved_ranked, queries_results,
                relevance_scores, k>>
storeVars == <<dimension, index_type, index, index_d, is_trained, documents,
               metadata>>
historyVars == <<search_logs, sqlite_sequence, json_file>>
appVars == <<semantic_engine, history_db>>
envVars == <<disk, encoded, threads, objects, historyVars, appVars>>
vars == <<fn, ret, retrieved, relevant, retrieved_ranked, queries_results,
          relevance_scores, k, dimension, index_type, index, index_d,
          is_trained, documents, metadata, args, raised, disk, encoded,
          threads, objects, search_logs, sqlite_sequence, json_file,
          semantic_engine, history_db>>

----------------------------------------------------------------------------
(* Bounds *)

MaxSetId == 5     \* ids of the retrieved / relevant sets are 1..MaxSetId
MaxId == 3        \* ids of ranked lists and relevance mappings are 1..MaxId
MaxLen == 3       \* longest ranked list
MaxQLen == 2      \* longest ranked list inside queries_results
MaxQueries == 2   \* longest queries_results
MaxRel == 2       \* relevance scores are MinRel..MaxRel
MaxK == 3         \* k of ndcg is 0..MaxK

MinRel == 0 - 1

SetIds == 1..MaxSetId
Ids == 1..MaxId
QIds == {1, 2}    \* the ids used inside queries_results
RelVals == MinRel..MaxRel

SeqsUpTo(S, n) == UNION {[1..m -> S] : m \in 0..n}

\* every dict whose keys are ids of S and whose values are in V
Dicts(S, V) == UNION {[D -> V] : D \in SUBSET S}

----------------------------------------------------------------------------
(* Python floats as exact rationals *)

Rat(n, d) == IF d < 0 THEN <<0 - n, 0 - d>> ELSE <<n, d>>
Zero == <<0, 1>>
One == <<1, 1>>
ZeroDivisionError == <<1, 0>>

Raised(a) == a[2] = 0
REq(a, b) == a[1] * b[2] = b[1] * a[2]
RLe(a, b) == a[1] * b[2] <= b[1] * a[2]
RAdd(a, b) == <<a[1] * b[2] + b[1] * a[2], a[2] * b[2]>>
RMul(a, b) == <<a[1] * b[1], a[2] * b[2]>>
RDiv(a, b) ==
    IF Raised(a) \/ Raised(b) \/ b[1] = 0 THEN ZeroDivisionError
    ELSE Rat(a[1] * b[2], a[2] * b[1])
InUnit(a) == ~Raised(a) /\ RLe(Zero, a) /\ RLe(a, One)

RECURSIVE RSum(_)
RSum(s) == IF s = <<>> THEN Zero ELSE RAdd(s[1], RSum(Tail(s)))

\* Python slice s[:n]
Slice(s, n) ==
    IF n >= 0 THEN SubSeq(s, 1, IF n < Len(s) THEN n ELSE Len(s))
    ELSE SubSeq(s, 1, IF Len(s) + n > 0 THEN Len(s) + n ELSE 0)

----------------------------------------------------------------------------
(* SearchMetrics *)

\* faulty variant: divides by the number of relevant documents
precision_by_relevant(R, L) ==
    IF R = {} THEN Zero
    ELSE Rat(Cardinality(R \cap L), Cardinality(L))

precision(R, L) ==
    IF R = {} THEN Zero
    ELSE LET true_positives == Cardinality(R \cap L)
         IN  Rat(true_positives, Cardinality(R))

\* faulty variant: divides by the number of retrieved documents
recall_by_retrieved(R, L) ==
    IF L = {} THEN Zero
    ELSE Rat(Cardinality(R \cap L), Cardinality(R))

recall(R, L) ==
    IF L = {} THEN Zero
    ELSE LET true_positives == Cardinality(R \cap L)
         IN  Rat(true_positives, Cardinality(L))

\* faulty variant: the factor 2 of the harmonic mean is missing
f1_score_no_factor(R, L) ==
    LET prec == precision(R, L)
        rec == recall(R, L)
    IN  IF REq(RAdd(prec, rec), Zero) THEN Zero
        ELSE RDiv(RMul(prec, rec), RAdd(prec, rec))

f1_score(R, L) ==
    LET prec == precision(R, L)
        rec == recall(R, L)
    IN  IF REq(RAdd(prec, rec), Zero) THEN Zero
        ELSE RDiv(RMul(Rat(2, 1), RMul(prec, rec)), RAdd(prec, rec))

\* the loop of average_precision from 0-based position i on: the list
\* `precisions` after the loop
RECURSIVE ap_loop(_, _, _, _, _)
ap_loop(ranked, L, i, relevant_count, precisions) ==
    IF i >= Len(ranked) THEN precisions
    ELSE IF ranked[i + 1] \in L
         THEN ap_loop(ranked, L, i + 1, relevant_count + 1,
                      Append(precisions, Rat(relevant_count + 1, i + 1)))
         ELSE ap_loop(ranked, L, i + 1, relevant_count, precisions)

\* faulty variant: divides by the number of relevant items found, not by len(relevant)
average_precision_by_hits(ranked, L) ==
    IF L = {} \/ ranked = <<>> THEN Zero
    ELSE LET precisions == ap_loop(ranked, L, 0, 0, <<>>)
         IN  IF precisions = <<>> THEN Zero
             ELSE RDiv(RSum(precisions), Rat(Len(precisions), 1))

average_precision(ranked, L) ==
    IF L = {} \/ ranked = <<>> THEN Zero
    ELSE LET precisions == ap_loop(ranked, L, 0, 0, <<>>)
         IN  IF precisions = <<>> THEN Zero
             ELSE RDiv(RSum(precisions), Rat(Cardinality(L), 1))

mean_average_precision(qs) ==
    IF qs = <<>> THEN Zero
    ELSE LET aps == [i \in 1..Len(qs) |-> average_precision(qs[i][1], qs[i][2])]
         IN  RDiv(RSum(aps), Rat(Len(aps), 1))

\* 1000000 / np.log2(i + 2), rounded, for the 0-based position i
DiscountTable == <<1000000, 630930, 500000, 430677, 386853, 356207, 333333>>
Discount(i) == DiscountTable[i + 1]

\* relevance_scores.get(doc_id, 0.0)
Get(scores, doc_id) == IF doc_id \in DOMAIN scores THEN scores[doc_id] ELSE 0

\* sum over positions i of rels[i] / np.log2(i + 2), on the fixed-point scale
RECURSIVE dcg_loop(_, _)
dcg_loop(rels, i) ==
    IF i >= Len(rels) THEN 0
    ELSE rels[i + 1] * Discount(i) + dcg_loop(rels, i + 1)

\* the values of the dict sorted by value, largest first
RECURSIVE sorted_desc(_, _)
sorted_desc(scores, D) ==
    IF D = {} THEN <<>>
    ELSE LET m == CHOOSE x \in D : \A y \in D : scores[y] <= scores[x]
         IN  <<scores[m]>> \o sorted_desc(scores, D \ {m})

ndcg(ranked, scores, kk) ==
    IF ranked = <<>> \/ DOMAIN scores = {} THEN Zero
    ELSE LET top == Slice(ranked, kk)
             dcg == dcg_loop([i \in 1..Len(top) |-> Get(scores, top[i])], 0)
             ideal_ranked == sorted_desc(scores, DOMAIN scores)
             idcg == dcg_loop(Slice(ideal_ranked, kk), 0)
         IN  IF idcg = 0 THEN Zero ELSE Rat(dcg, idcg)

\* the inner for/else of mrr: the reciprocal rank of one query
RECURSIVE rr_loop(_, _, _)
rr_loop(ranked, L, i) ==
    IF i >= Len(ranked) THEN Zero
    ELSE IF ranked[i + 1] \in L THEN Rat(1, i + 1)
         ELSE rr_loop(ranked, L, i + 1)

\* faulty variant: the inner loop has no break and the last relevant item counts
RECURSIVE rr_last(_, _, _)
rr_last(ranked, L, i) ==
    IF i = 0 THEN Zero
    ELSE IF ranked[i] \in L THEN Rat(1, i) ELSE rr_last(ranked, L, i - 1)

mrr_last_relevant(qs) ==
    IF qs = <<>> THEN Zero
    ELSE LET reciprocal_ranks == [i \in 1..Len(qs) |-> rr_last(qs[i][1], qs[i][2], Len(qs[i][1]))]
         IN  RDiv(RSum(reciprocal_ranks), Rat(Len(reciprocal_ranks), 1))

mrr(qs) ==
    IF qs = <<>> THEN Zero
    ELSE LET reciprocal_ranks == [i \in 1..Len(qs) |-> rr_loop(qs[i][1], qs[i][2], 0)]
         IN  RDiv(RSum(reciprocal_ranks), Rat(Len(reciprocal_ranks), 1))

evaluate_all(R, L) ==
    [precision |-> precision(R, L),
     recall |-> recall(R, L),
     f1_score |-> f1_score(R, L)]

----------------------------------------------------------------------------
(* Default values of the variables a specification does not use *)

\* Optional[T]: None, or a value
None == {}
Some(x) == {x}
ValueOf(o) == CHOOSE x \in o : TRUE

NoArgs == [none |-> TRUE]

\* the snapshot directory without its two files
NoFiles == [index_faiss |-> None, data_pkl |-> None]

NoEnv ==
    /\ disk = NoFiles
    /\ encoded = <<>>
    /\ threads = <<>>
    /\ objects = <<>>
    /\ search_logs = <<>>
    /\ sqlite_sequence = 0
    /\ json_file = None
    /\ semantic_engine = None
    /\ history_db = None
NoStore ==
    /\ NoEnv
    /\ dimension = 0
    /\ index_type = "none"
    /\ index = <<>>
    /\ index_d = 0
    /\ is_trained = FALSE
    /\ documents = <<>>
    /\ metadata = <<>>
    /\ args = NoArgs
    /\ raised = "none"
NoMetricInputs ==
    /\ retrieved = {}
    /\ relevant = {}
    /\ retrieved_ranked = <<>>
    /\ queries_results = <<>>
    /\ relevance_scores = <<>>
    /\ k = 0

Return(f, value) ==
    /\ fn' = f
    /\ ret' = value
    /\ UNCHANGED <<metricVars, storeVars, envVars, args, raised>>

----------------------------------------------------------------------------
(* Metrics over a retrieved set and a relevant set *)

InitSets ==
    /\ fn = "none"
    /\ ret = Zero
    /\ retrieved \in SUBSET SetIds
    /\ relevant \in SUBSET SetIds
    /\ retrieved_ranked = <<>>
    /\ queries_results = <<>>
    /\ relevance_scores = <<>>
    /\ k = 0
    /\ NoStore

CallPrecision == Return("precision", precision(retrieved, relevant))
CallRecall == Return("recall", recall(retrieved, relevant))
CallF1Score == Return("f1_score", f1_score(retrieved, relevant))
CallEvaluateAll == Return("evaluate_all", evaluate_all(retrieved, relevant))

NextSets == CallPrecision \/ CallRecall \/ CallF1Score \/ CallEvaluateAll
SpecSets == InitSets /\ [][NextSets]_vars

----------------------------------------------------------------------------
(* average_precision over one ranked list *)

InitRanked ==
    /\ fn = "none"
    /\ ret = Zero
    /\ retrieved = {}
    /\ relevant \in SUBSET Ids
    /\ retrieved_ranked \in SeqsUpTo(Ids, MaxLen)
    /\ queries_results = <<>>
    /\ relevance_scores = <<>>
    /\ k = 0
    /\ NoStore

CallAveragePrecision ==
    Return("average_precision", average_precision(retrieved_ranked, relevant))

NextRanked == CallAveragePrecision
SpecRanked == InitRanked /\ [][NextRanked]_vars

----------------------------------------------------------------------------
(* ndcg over one ranked list and a relevance mapping *)

InitNdcg ==
    /\ fn = "none"
    /\ ret = Zero
    /\ retrieved = {}
    /\ relevant = {}
    /\ retrieved_ranked \in SeqsUpTo(Ids, MaxLen)
    /\ queries_results = <<>>
    /\ relevance_scores \in Dicts(Ids, RelVals)
    /\ k \in 0..MaxK
    /\ NoStore

CallNdcg == Return("ndcg", ndcg(retrieved_ranked, relevance_scores, k))

NextNdcg == CallNdcg
SpecNdcg == InitNdcg /\ [][NextNdcg]_vars

----------------------------------------------------------------------------
(* Metrics over a list of queries *)

QueryPairs == SeqsUpTo(QIds, MaxQLen) \X SUBSET QIds

InitQueries ==
    /\ fn = "none"
    /\ ret = Zero
    /\ retrieved = {}
    /\ relevant = {}
    /\ retrieved_ranked = <<>>
    /\ queries_results \in SeqsUpTo(QueryPairs, MaxQueries)
    /\ relevance_scores = <<>>
    /\ k = 0
    /\ NoStore

CallMeanAveragePrecision ==
    Return("mean_average_precision", mean_average_precision(queries_results))
CallMrr == Return("mrr", mrr(queries_results))

NextQueries == CallMeanAveragePrecision \/ CallMrr
SpecQueries == InitQueries /\ [][NextQueries]_vars

----------------------------------------------------------------------------
(* VectorStore                                                             *)
(*                                                                         *)
(* self.index is a faiss index.  The 'flat' variant (IndexFlatL2) is an    *)
(* exact scan: it is modelled by the vectors it holds, in id order, and    *)
(* its search by the k entries smallest in (squared L2 distance, id), the  *)
(* order its result heap produces.  The 'ivf' variant has to be trained    *)
(* with at least NList vectors before it accepts any, which no batch of    *)
(* this model reaches.  The 'hnsw' variant is not modelled.  Vector        *)
(* components are small integers, which astype(np.float32) leaves as they  *)
(* are.                                                                    *)

MaxStore == 2     \* most documents held by the store

NList == 100      \* clusters of the 'ivf' index

Vectors == {<<0>>, <<1>>}          \* the vectors of the store's dimension
BatchSizes == 0..2                 \* rows, documents or metadata entries of one add
Texts == {"a", "b"}
MetaDicts == {{<<"tag", 1>>}}      \* the dicts a caller supplies; a dict is its set of items

Min(a, b) == IF a < b THEN a ELSE b

RECURSIVE fvec_L2sqr(_, _)
fvec_L2sqr(x, y) ==
    IF x = <<>> THEN 0
    ELSE (x[1] - y[1]) * (x[1] - y[1]) + fvec_L2sqr(Tail(x), Tail(y))

\* the kk results of IndexFlatL2.search over the vectors xb for one query:
\* records of distance and 0-based id, nearest first, equal distances by
\* ascending id; missing results have id -1 (their distance is never read)
RECURSIVE knn(_, _, _, _)
knn(xb, q, S, kk) ==
    IF kk <= 0 THEN <<>>
    ELSE IF S = {} THEN <<[dist |-> 0, idx |-> 0 - 1]>> \o knn(xb, q, S, kk - 1)
    ELSE LET m == CHOOSE i \in S : \A j \in S \ {i} :
                     \/ fvec_L2sqr(q, xb[i]) < fvec_L2sqr(q, xb[j])
                     \/ fvec_L2sqr(q, xb[i]) = fvec_L2sqr(q, xb[j]) /\ i < j
         IN  <<[dist |-> fvec_L2sqr(q, xb[m]), idx |-> m - 1]>>
                 \o knn(xb, q, S \ {m}, kk - 1)

\* self.index.search(query_embedding, kk): zip(distances[0], indices[0])
index_search(q, kk) ==
    CASE index_type = "flat" -> knn(index, q, 1..Len(index), kk)

\* the loop of search over the (dist, idx) pairs
RECURSIVE search_loop(_, _, _)
search_loop(hits, threshold, results) ==
    IF hits = <<>> THEN [raised |-> "none", value |-> results]
    ELSE LET dist == hits[1].dist
             idx == hits[1].idx
         IN  IF idx < 0 \/ idx >= Len(documents)
             THEN search_loop(Tail(hits), threshold, results)
             ELSE IF threshold # None /\ dist > ValueOf(threshold)
             THEN search_loop(Tail(hits), threshold, results)
             ELSE IF idx >= Len(metadata)
             THEN [raised |-> "IndexError", value |-> <<>>]
             ELSE search_loop(Tail(hits), threshold,
                      Append(results, <<documents[idx + 1], dist, metadata[idx + 1]>>))

\* faulty variant: a threshold of 0 counts as no threshold (`if threshold and ...`)
RECURSIVE search_loop_truthy(_, _, _)
search_loop_truthy(hits, threshold, results) ==
    IF hits = <<>> THEN [raised |-> "none", value |-> results]
    ELSE LET dist == hits[1].dist
             idx == hits[1].idx
         IN  IF idx < 0 \/ idx >= Len(documents)
             THEN search_loop_truthy(Tail(hits), threshold, results)
             ELSE IF threshold # None /\ ValueOf(threshold) # 0 /\ dist > ValueOf(threshold)
             THEN search_loop_truthy(Tail(hits), threshold, results)
             ELSE IF idx >= Len(metadata)
             THEN [raised |-> "IndexError", value |-> <<>>]
             ELSE search_loop_truthy(Tail(hits), threshold,
                      Append(results, <<documents[idx + 1], dist, metadata[idx + 1]>>))

Reverse(s) == [i \in 1..Len(s) |-> s[Len(s) + 1 - i]]

\* faulty variant: the results are collected most distant first
search_reversed(query_embedding, kk, threshold) ==
    IF Len(documents) = 0 THEN [raised |-> "none", value |-> <<>>]
    ELSE IF Len(query_embedding) # index_d \/ Min(kk, Len(documents)) <= 0
    THEN [raised |-> "AssertionError", value |-> <<>>]
    ELSE search_loop(Reverse(index_search(query_embedding, Min(kk, Len(documents)))),
                     threshold, <<>>)

\* faulty variant: the threshold test treats 0 as no threshold
search_truthy_threshold(query_embedding, kk, threshold) ==
    IF Len(documents) = 0 THEN [raised |-> "none", value |-> <<>>]
    ELSE IF Len(query_embedding) # index_d \/ Min(kk, Len(documents)) <= 0
    THEN [raised |-> "AssertionError", value |-> <<>>]
    ELSE search_loop_truthy(index_search(query_embedding, Min(kk, Len(documents))),
                            threshold, <<>>)

\* VectorStore.search; faiss asserts the width of the query and k > 0
search(query_embedding, kk, threshold) ==
    IF Len(documents) = 0 THEN [raised |-> "none", value |-> <<>>]
    ELSE IF Len(query_embedding) # index_d \/ Min(kk, Len(documents)) <= 0
    THEN [raised |-> "AssertionError", value |-> <<>>]
    ELSE search_loop(index_search(query_embedding, Min(kk, Len(documents))),
                     threshold, <<>>)

\* the store as add leaves it when it raises
AddRaises(error) ==
    [raised |-> error, index |-> index, is_trained |-> is_trained,
     documents |-> documents, metadata |-> metadata]

\* metadata.extend(metadata) or metadata.extend([{}] * len(documents))
extend_metadata(docs, md) ==
    IF md # None /\ ValueOf(md) # <<>> THEN metadata \o ValueOf(md)
    ELSE metadata \o [i \in 1..Len(docs) |-> {}]

\* faulty variant: the length check comes after the rows went into the index
add_checks_late(embeddings, width, docs, md) ==
    IF index_type = "ivf" /\ ~is_trained /\ width # index_d
    THEN AddRaises("AssertionError")
    ELSE IF index_type = "ivf" /\ ~is_trained /\ Len(embeddings) < NList
    THEN AddRaises("RuntimeError")
    ELSE IF width # index_d THEN AddRaises("AssertionError")
    ELSE IF Len(embeddings) # Len(docs)
    THEN [raised |-> "ValueError", index |-> index \o embeddings,
          is_trained |-> TRUE, documents |-> documents, metadata |-> metadata]
    ELSE [raised |-> "none",
          index |-> index \o embeddings,
          is_trained |-> TRUE,
          documents |-> documents \o docs,
          metadata |-> extend_metadata(docs, md)]

\* VectorStore.add of an array of Len(embeddings) rows of the given width:
\* the store after the call and what the call raised.  faiss asserts the
\* width in train and in add, and refuses to train on fewer than NList rows.
add(embeddings, width, docs, md) ==
    IF Len(embeddings) # Len(docs) THEN AddRaises("ValueError")
    ELSE IF index_type = "ivf" /\ ~is_trained /\ width # index_d
    THEN AddRaises("AssertionError")
    ELSE IF index_type = "ivf" /\ ~is_trained /\ Len(embeddings) < NList
    THEN AddRaises("RuntimeError")
    ELSE IF width # index_d THEN AddRaises("AssertionError")
    ELSE [raised |-> "none",
          index |-> index \o embeddings,
          is_trained |-> TRUE,
          documents |-> documents \o docs,
          metadata |-> extend_metadata(docs, md)]

\* VectorStore.__len__
len == Len(documents)

\* Optional thresholds of search
Thresholds == {None, Some(0), Some(1)}

\* VectorStore.__init__(dimension, index_type), for the width of Vectors
InitStore ==
    /\ fn = "none"
    /\ ret = <<>>
    /\ NoMetricInputs
    /\ dimension \in {Len(v) : v \in Vectors}
    /\ index_type \in {"flat", "ivf"}
    /\ index = <<>>
    /\ index_d = dimension
    /\ is_trained = (index_type # "ivf")
    /\ documents = <<>>
    /\ metadata = <<>>
    /\ args = NoArgs
    /\ raised = "none"
    /\ NoEnv

ZeroVector(width) == [j \in 1..width |-> 0]

\* The calls of add.  add decides from the shapes alone whether it rejects
\* the call, and then reads neither the rows, the texts nor the metadata:
\* one call of each shape stands for the calls of mismatched lengths and for
\* the calls of another width.
MatchedCalls ==
    {[embeddings |-> e, width |-> dimension, documents |-> d, metadata |-> md] :
        e \in UNION {[1..n -> Vectors] : n \in BatchSizes},
        d \in UNION {[1..n -> Texts] : n \in BatchSizes},
        md \in {None} \cup {Some([i \in 1..m |-> x]) : m \in BatchSizes, x \in MetaDicts}}

MismatchedCalls ==
    {[embeddings |-> [i \in 1..n |-> ZeroVector(dimension)], width |-> dimension,
      documents |-> [i \in 1..m |-> "a"], metadata |-> None] :
        n \in BatchSizes, m \in BatchSizes}

OtherWidthCalls ==
    {[embeddings |-> [i \in 1..n |-> ZeroVector(dimension + 1)], width |-> dimension + 1,
      documents |-> [i \in 1..n |-> "a"], metadata |-> None] :
        n \in BatchSizes}

AddCalls ==
    {c \in MatchedCalls : Len(c.embeddings) = Len(c.documents)}
        \cup {c \in MismatchedCalls : Len(c.embeddings) # Len(c.documents)}
        \cup OtherWidthCalls

\* args records the shape of the embeddings, the number of documents and
\* the metadata of the call
Add ==
    \E c \in AddCalls :
        LET r == add(c.embeddings, c.width, c.documents, c.metadata)
        IN  /\ Len(r.documents) <= MaxStore
            /\ Len(r.metadata) <= MaxStore
            /\ fn' = "add"
            /\ args' = [shape |-> <<Len(c.embeddings), c.width>>,
                        n_documents |-> Len(c.documents), metadata |-> c.metadata]
            /\ raised' = r.raised
            /\ ret' = <<>>
            /\ index' = r.index
            /\ is_trained' = r.is_trained
            /\ documents' = r.documents
            /\ metadata' = r.metadata
            /\ UNCHANGED <<metricVars, envVars, dimension, index_type, index_d>>

\* the query vectors: every vector of the store's width, one of another width
Queries == Vectors \cup {ZeroVector(dimension + 1)}

Search ==
    \E query_embedding \in Queries :
    \E kk \in 0..MaxStore :
    \E threshold \in Thresholds :
        LET r == search(query_embedding, kk, threshold)
        IN  /\ fn' = "search"
            /\ args' = [query_embedding |-> query_embedding, k |-> kk,
                        threshold |-> threshold]
            /\ raised' = r.raised
            /\ ret' = r.value
            /\ UNCHANGED <<metricVars, envVars, storeVars>>

NextStore == Add \/ Search
SpecStore == InitStore /\ [][NextStore]_vars

----------------------------------------------------------------------------
(* VectorStore.save and VectorStore.load                                   *)
(*                                                                         *)
(* A snapshot is the two files index.faiss and data.pkl of one directory.  *)
(* disk holds what each file contains, None while the file does not exist. *)
(* faiss.write_index keeps the index whole (its width d, its vectors, its  *)
(* trained flag); pickle keeps the dict of save by value.  save writes     *)
(* index.faiss first and opens data.pkl second: when that open raises (the *)
(* file is not writable, the disk is full), index.faiss is already         *)
(* replaced and data.pkl is the one of an older snapshot.                  *)

\* faiss.write_index(self.index, path / "index.faiss")
write_index == Some([d |-> index_d, is_trained |-> is_trained, xb |-> index])

\* pickle.dump({...}, f) into data.pkl
pickle_dump ==
    Some([documents |-> documents, metadata |-> metadata,
          dimension |-> dimension, index_type |-> index_type])

\* VectorStore.save: the files after the call
save == [index_faiss |-> write_index, data_pkl |-> pickle_dump]

\* VectorStore.save when open(path / "data.pkl", "wb") raises OSError
save_open_raises == [disk EXCEPT !.index_faiss = write_index]

\* the store as it is when load raises: no store is returned
LoadRaises(error) ==
    [raised |-> error, dimension |-> dimension, index_type |-> index_type,
     index |-> index, index_d |-> index_d, is_trained |-> is_trained,
     documents |-> documents, metadata |-> metadata]

\* faulty variant: the loaded store keeps the default metadata of a new store
load_without_metadata ==
    IF disk.data_pkl = None THEN LoadRaises("FileNotFoundError")
    ELSE IF disk.index_faiss = None THEN LoadRaises("RuntimeError")
    ELSE LET data == ValueOf(disk.data_pkl)
             file == ValueOf(disk.index_faiss)
         IN  [raised |-> "none",
              dimension |-> data.dimension,
              index_type |-> data.index_type,
              index |-> file.xb,
              index_d |-> file.d,
              is_trained |-> file.is_trained,
              documents |-> data.documents,
              metadata |-> [i \in 1..Len(data.documents) |-> {}]]

\* VectorStore.load: the store it returns, or what it raised.  open raises
\* FileNotFoundError without data.pkl, faiss.read_index raises RuntimeError
\* without index.faiss; nothing compares the two files.
load ==
    IF disk.data_pkl = None THEN LoadRaises("FileNotFoundError")
    ELSE IF disk.index_faiss = None THEN LoadRaises("RuntimeError")
    ELSE LET data == ValueOf(disk.data_pkl)
             file == ValueOf(disk.index_faiss)
         IN  [raised |-> "none",
              dimension |-> data.dimension,
              index_type |-> data.index_type,
              index |-> file.xb,
              index_d |-> file.d,
              is_trained |-> file.is_trained,
              documents |-> data.documents,
              metadata |-> data.metadata]

Dimensions == {1, 2}

\* VectorStore(dimension, "flat"), with no snapshot on disk
InitPersist ==
    /\ fn = "none"
    /\ ret = <<>>
    /\ NoMetricInputs
    /\ dimension \in Dimensions
    /\ index_type = "flat"
    /\ index = <<>>
    /\ index_d = dimension
    /\ is_trained = TRUE
    /\ documents = <<>>
    /\ metadata = <<>>
    /\ args = NoArgs
    /\ raised = "none"
    /\ NoEnv

\* the program drops its store and constructs VectorStore(d, "flat")
New ==
    \E d \in Dimensions :
        /\ fn' = "__init__"
        /\ args' = [dimension |-> d, index_type |-> "flat"]
        /\ raised' = "none"
        /\ ret' = <<>>
        /\ dimension' = d
        /\ index_type' = "flat"
        /\ index' = <<>>
        /\ index_d' = d
        /\ is_trained' = TRUE
        /\ documents' = <<>>
        /\ metadata' = <<>>
        /\ UNCHANGED <<metricVars, envVars>>

\* The adds between snapshots put one entry at a time: one of two vectors of
\* width 1 (the second with its metadata) or the zero vector of width 2.
EntryCalls ==
    {[embeddings |-> << <<0>> >>, width |-> 1, documents |-> <<"a">>, metadata |-> None],
     [embeddings |-> << <<1>> >>, width |-> 1, documents |-> <<"b">>,
      metadata |-> Some(<< {<<"tag", 1>>} >>)],
     [embeddings |-> << <<0, 0>> >>, width |-> 2, documents |-> <<"a">>, metadata |-> None]}

AddEntry ==
    \E c \in EntryCalls :
        LET r == add(c.embeddings, c.width, c.documents, c.metadata)
        IN  /\ Len(r.documents) <= MaxStore
            /\ Len(r.index) <= MaxStore
            /\ fn' = "add"
            /\ args' = [shape |-> <<Len(c.embeddings), c.width>>,
                        n_documents |-> Len(c.documents), metadata |-> c.metadata]
            /\ raised' = r.raised
            /\ ret' = <<>>
            /\ index' = r.index
            /\ is_trained' = r.is_trained
            /\ documents' = r.documents
            /\ metadata' = r.metadata
            /\ UNCHANGED <<metricVars, envVars, dimension, index_type, index_d>>

Save ==
    /\ fn' = "save"
    /\ args' = NoArgs
    /\ raised' = "none"
    /\ ret' = <<>>
    /\ disk' = save
    /\ UNCHANGED <<metricVars, storeVars, encoded, threads, objects, historyVars,
                   appVars>>

SaveOpenRaises ==
    /\ fn' = "save"
    /\ args' = NoArgs
    /\ raised' = "OSError"
    /\ ret' = <<>>
    /\ disk' = save_open_raises
    /\ UNCHANGED <<metricVars, storeVars, encoded, threads, objects, historyVars,
                   appVars>>

\* store = VectorStore.load(path); the program keeps its store when load raises
Load ==
    LET r == load
    IN  /\ fn' = "load"
        /\ args' = NoArgs
        /\ raised' = r.raised
        /\ ret' = <<>>
        /\ dimension' = r.dimension
        /\ index_type' = r.index_type
        /\ index' = r.index
        /\ index_d' = r.index_d
        /\ is_trained' = r.is_trained
        /\ documents' = r.documents
        /\ metadata' = r.metadata
        /\ UNCHANGED <<metricVars, envVars>>

NextPersist == New \/ AddEntry \/ Save \/ SaveOpenRaises \/ Load
SpecPersist == InitPersist /\ [][NextPersist]_vars

----------------------------------------------------------------------------
(* DocumentChunker                                                         *)
(*                                                                         *)
(* A str is the sequence of its characters.  The characters are a letter,  *)
(* a sentence terminator, a blank and a newline; the chunk sizes are at    *)
(* least 1 (a negative slice bound counts from the end of the list, which  *)
(* slice does not model).                                                  *)

MaxText == 5       \* most characters of a text
MaxWindow == 2     \* largest chunk_size / max_tokens

Chars == {"w", ".", " ", "\n"}
Strings == SeqsUpTo(Chars, MaxText)

IsSpace(c) == c \in {" ", "\n"}
IsTerminator(c) == c \in {".", "!", "?"}

RECURSIVE lstrip(_)
lstrip(s) == IF s # <<>> /\ IsSpace(s[1]) THEN lstrip(Tail(s)) ELSE s

RECURSIVE rstrip(_)
rstrip(s) ==
    IF s # <<>> /\ IsSpace(s[Len(s)]) THEN rstrip(SubSeq(s, 1, Len(s) - 1)) ELSE s

\* str.strip()
strip(s) == rstrip(lstrip(s))

\* sep.join(parts)
RECURSIVE join(_, _)
join(sep, parts) ==
    IF parts = <<>> THEN <<>>
    ELSE IF Len(parts) = 1 THEN parts[1]
    ELSE parts[1] \o sep \o join(sep, Tail(parts))

\* the first position from i on that holds no whitespace
RECURSIVE EndOfSpaces(_, _)
EndOfSpaces(text, i) ==
    IF i <= Len(text) /\ IsSpace(text[i]) THEN EndOfSpaces(text, i + 1) ELSE i

\* re.split(r'(?<=[.!?])\s+', text): the text is cut at every run of
\* whitespace that follows a terminator; cur is the piece read so far
RECURSIVE re_split(_, _, _)
re_split(text, i, cur) ==
    IF i > Len(text) THEN <<cur>>
    ELSE IF IsSpace(text[i]) /\ i > 1 /\ IsTerminator(text[i - 1])
    THEN <<cur>> \o re_split(text, EndOfSpaces(text, i), <<>>)
    ELSE re_split(text, i + 1, Append(cur, text[i]))

\* text.split(): the maximal runs of non-whitespace
RECURSIVE split(_, _, _)
split(text, i, cur) ==
    IF i > Len(text) THEN (IF cur = <<>> THEN <<>> ELSE <<cur>>)
    ELSE IF IsSpace(text[i])
    THEN (IF cur = <<>> THEN <<>> ELSE <<cur>>) \o split(text, i + 1, <<>>)
    ELSE split(text, i + 1, Append(cur, text[i]))

\* text.split("\n\n")
RECURSIVE split_blank_line(_, _, _)
split_blank_line(text, i, cur) ==
    IF i > Len(text) THEN <<cur>>
    ELSE IF i < Len(text) /\ text[i] = "\n" /\ text[i + 1] = "\n"
    THEN <<cur>> \o split_blank_line(text, i + 2, <<>>)
    ELSE split_blank_line(text, i + 1, Append(cur, text[i]))

\* [s.strip() for s in pieces if s.strip()]
RECURSIVE stripped_non_empty(_)
stripped_non_empty(pieces) ==
    IF pieces = <<>> THEN <<>>
    ELSE (IF strip(pieces[1]) = <<>> THEN <<>> ELSE <<strip(pieces[1])>>)
             \o stripped_non_empty(Tail(pieces))

\* the sentences chunk_by_sentences works on
sentences_of(text) == stripped_non_empty(re_split(text, 1, <<>>))

\* the words chunk_by_tokens works on
words_of(text) == split(text, 1, <<>>)

RECURSIVE range_up(_, _, _)
range_up(i, stop, step) ==
    IF i >= stop THEN <<>> ELSE <<i>> \o range_up(i + step, stop, step)

RECURSIVE range_down(_, _, _)
range_down(i, stop, step) ==
    IF i <= stop THEN <<>> ELSE <<i>> \o range_down(i + step, stop, step)

\* range(start, stop, step); a step of 0 raises ValueError
range(start, stop, step) ==
    IF step = 0 THEN [raised |-> "ValueError", value |-> <<>>]
    ELSE IF step > 0 THEN [raised |-> "none", value |-> range_up(start, stop, step)]
    ELSE [raised |-> "none", value |-> range_down(start, stop, step)]

\* units[i:j] for 0 <= i and 0 <= j
slice(units, i, j) == SubSeq(units, i + 1, Min(j, Len(units)))

\* the loop of both window chunkers: one chunk per start of range, the
\* units of the window joined by a blank, an empty window skipped
RECURSIVE window_loop(_, _, _)
window_loop(units, starts, size) ==
    IF starts = <<>> THEN <<>>
    ELSE LET chunk_units == slice(units, starts[1], starts[1] + size)
         IN  (IF chunk_units # <<>> THEN <<join(<<" ">>, chunk_units)>> ELSE <<>>)
                 \o window_loop(units, Tail(starts), size)

\* faulty variant: the window ends one unit early
RECURSIVE window_loop_short(_, _, _)
window_loop_short(units, starts, size) ==
    IF starts = <<>> THEN <<>>
    ELSE LET chunk_units == slice(units, starts[1], starts[1] + size - 1)
         IN  (IF chunk_units # <<>> THEN <<join(<<" ">>, chunk_units)>> ELSE <<>>)
                 \o window_loop_short(units, Tail(starts), size)

\* faulty variant: chunk_by_sentences with windows one sentence short
chunk_by_sentences_short(text, chunk_size, overlap) ==
    LET sentences == sentences_of(text)
        starts == range(0, Len(sentences), chunk_size - overlap)
    IN  IF sentences = <<>> THEN [raised |-> "none", value |-> <<>>]
        ELSE IF starts.raised # "none" THEN [raised |-> starts.raised, value |-> <<>>]
        ELSE [raised |-> "none",
              value |-> window_loop_short(sentences, starts.value, chunk_size)]

\* faulty variant: chunk_by_sentences whose windows start chunk_size apart,
\* whatever the overlap
chunk_by_sentences_no_overlap(text, chunk_size, overlap) ==
    LET sentences == sentences_of(text)
        starts == range(0, Len(sentences), chunk_size)
    IN  IF sentences = <<>> THEN [raised |-> "none", value |-> <<>>]
        ELSE IF starts.raised # "none" THEN [raised |-> starts.raised, value |-> <<>>]
        ELSE [raised |-> "none",
              value |-> window_loop(sentences, starts.value, chunk_size)]

\* DocumentChunker.chunk_by_sentences(text, chunk_size, overlap)
chunk_by_sentences(text, chunk_size, overlap) ==
    LET sentences == sentences_of(text)
        starts == range(0, Len(sentences), chunk_size - overlap)
    IN  IF sentences = <<>> THEN [raised |-> "none", value |-> <<>>]
        ELSE IF starts.raised # "none" THEN [raised |-> starts.raised, value |-> <<>>]
        ELSE [raised |-> "none",
              value |-> window_loop(sentences, starts.value, chunk_size)]

\* DocumentChunker.chunk_by_tokens(text, max_tokens, overlap_tokens)
chunk_by_tokens(text, max_tokens, overlap_tokens) ==
    LET words == words_of(text)
        starts == range(0, Len(words), max_tokens - overlap_tokens)
    IN  IF starts.raised # "none" THEN [raised |-> starts.raised, value |-> <<>>]
        ELSE [raised |-> "none",
              value |-> window_loop(words, starts.value, max_tokens)]

\* faulty variant: the paragraphs after the last full chunk are dropped
RECURSIVE paragraph_loop_drops_rest(_, _, _, _)
paragraph_loop_drops_rest(paragraphs, min_length, current_chunk, chunks) ==
    IF paragraphs = <<>> THEN chunks
    ELSE LET para == strip(paragraphs[1])
             chunk_text == join(<<"\n", "\n">>, Append(current_chunk, para))
         IN  IF para = <<>>
             THEN paragraph_loop_drops_rest(Tail(paragraphs), min_length,
                                            current_chunk, chunks)
             ELSE IF Len(chunk_text) >= min_length
             THEN paragraph_loop_drops_rest(Tail(paragraphs), min_length, <<>>,
                                            Append(chunks, chunk_text))
             ELSE paragraph_loop_drops_rest(Tail(paragraphs), min_length,
                                            Append(current_chunk, para), chunks)

\* the loop of chunk_by_paragraphs over the pieces of text.split("\n\n")
RECURSIVE paragraph_loop(_, _, _, _)
paragraph_loop(paragraphs, min_length, current_chunk, chunks) ==
    IF paragraphs = <<>>
    THEN (IF current_chunk # <<>>
          THEN Append(chunks, join(<<"\n", "\n">>, current_chunk))
          ELSE chunks)
    ELSE LET para == strip(paragraphs[1])
             chunk_text == join(<<"\n", "\n">>, Append(current_chunk, para))
         IN  IF para = <<>>
             THEN paragraph_loop(Tail(paragraphs), min_length, current_chunk, chunks)
             ELSE IF Len(chunk_text) >= min_length
             THEN paragraph_loop(Tail(paragraphs), min_length, <<>>,
                                 Append(chunks, chunk_text))
             ELSE paragraph_loop(Tail(paragraphs), min_length,
                                 Append(current_chunk, para), chunks)

\* DocumentChunker.chunk_by_paragraphs(text, min_length)
chunk_by_paragraphs(text, min_length) ==
    [raised |-> "none",
     value |-> paragraph_loop(split_blank_line(text, 1, <<>>), min_length, <<>>, <<>>)]

\* the arguments of one chunker call: a text, a window size (chunk_size,
\* max_tokens or min_length) and an overlap
ChunkerArgs == [text : Strings, chunk_size : 1..MaxWindow, overlap : 0..(MaxWindow + 1)]

InitChunker ==
    /\ fn = "none"
    /\ ret = <<>>
    /\ NoMetricInputs
    /\ NoEnv
    /\ dimension = 0
    /\ index_type = "none"
    /\ index = <<>>
    /\ index_d = 0
    /\ is_trained = FALSE
    /\ documents = <<>>
    /\ metadata = <<>>
    /\ args \in ChunkerArgs
    /\ raised = "none"

\* what a chunker call leaves: its chunks or its exception
Chunked(f, r) ==
    /\ fn' = f
    /\ raised' = r.raised
    /\ ret' = r.value
    /\ UNCHANGED <<metricVars, storeVars, envVars, args>>

CallChunkBySentences ==
    Chunked("chunk_by_sentences",
            chunk_by_sentences(args.text, args.chunk_size, args.overlap))

CallChunkByTokens ==
    Chunked("chunk_by_tokens",
            chunk_by_tokens(args.text, args.chunk_size, args.overlap))

CallChunkByParagraphs ==
    Chunked("chunk_by_paragraphs", chunk_by_paragraphs(args.text, args.chunk_size))

NextChunker == CallChunkBySentences \/ CallChunkByTokens \/ CallChunkByParagraphs
SpecChunker == InitChunker /\ [][NextChunker]_vars

----------------------------------------------------------------------------
(* RAGPipeline                                                             *)
(*                                                                         *)
(* The pipeline owns an EmbeddingEngine, a VectorStore of the engine's     *)
(* width and a DocumentChunker.  The sentence transformer is a fixed       *)
(* function from a text to a vector of that width; the model takes width 1 *)
(* and the parity of the length of the text for it.                        *)

EmbeddingDim == 1           \* EmbeddingEngine.embedding_dim
DefaultOverlap == 1         \* overlap of chunk_by_sentences when not given
DefaultOverlapTokens == 50  \* overlap_tokens of chunk_by_tokens when not given

\* EmbeddingEngine.encode(texts): one row per text
encode(texts) ==
    [i \in 1..Len(texts) |-> [j \in 1..EmbeddingDim |-> Len(texts[i]) % 2]]

\* {**a, **b}: the items of b, and those of a under the other keys
dict_update(a, b) == {p \in a : \A q \in b : q[1] # p[1]} \cup b

\* the chunks of one document under the chunk method
chunks_of(doc, chunk_method, chunk_size) ==
    CASE chunk_method = "sentences" -> chunk_by_sentences(doc, chunk_size, DefaultOverlap)
      [] chunk_method = "tokens" -> chunk_by_tokens(doc, chunk_size, DefaultOverlapTokens)
      [] chunk_method = "paragraphs" -> chunk_by_paragraphs(doc, chunk_size)
      [] OTHER -> [raised |-> "ValueError", value |-> <<>>]

\* faulty variant: the keys of the document's metadata win over the chunk's
chunk_metadata_document_wins(doc_metadata, idx, chunks) ==
    [chunk_idx \in 1..Len(chunks) |->
        dict_update({<<"doc_id", idx>>, <<"chunk_id", chunk_idx - 1>>,
                     <<"total_chunks", Len(chunks)>>}, doc_metadata)]

\* the metadata of the chunks of document idx
chunk_metadata(doc_metadata, idx, chunks) ==
    [chunk_idx \in 1..Len(chunks) |->
        dict_update(doc_metadata, {<<"doc_id", idx>>, <<"chunk_id", chunk_idx - 1>>,
                                   <<"total_chunks", Len(chunks)>>})]

\* the loop of add_documents from document idx (0-based) on: what it raised
\* and the chunks and metadata collected until then
RECURSIVE add_documents_loop(_, _, _, _, _, _, _)
add_documents_loop(docs, idx, chunk_method, chunk_size, md, all_chunks, all_metadata) ==
    IF idx >= Len(docs)
    THEN [raised |-> "none", all_chunks |-> all_chunks, all_metadata |-> all_metadata]
    ELSE LET c == chunks_of(docs[idx + 1], chunk_method, chunk_size)
             truthy == md # None /\ ValueOf(md) # <<>>
         IN  IF c.raised # "none"
             THEN [raised |-> c.raised, all_chunks |-> all_chunks,
                   all_metadata |-> all_metadata]
             ELSE IF truthy /\ idx >= Len(ValueOf(md))
             THEN [raised |-> "IndexError", all_chunks |-> all_chunks,
                   all_metadata |-> all_metadata]
             ELSE add_documents_loop(docs, idx + 1, chunk_method, chunk_size, md,
                      all_chunks \o c.value,
                      all_metadata \o chunk_metadata(
                          IF truthy THEN ValueOf(md)[idx + 1] ELSE {}, idx, c.value))

\* the store and the encoded texts after add_documents has encoded and
\* added the chunks
AddChunks(error, chunks, chunk_meta) ==
    LET r == add(encode(chunks), EmbeddingDim, chunks, Some(chunk_meta))
    IN  [raised |-> IF error # "none" THEN error ELSE r.raised,
         encoded |-> chunks, index |-> r.index, is_trained |-> r.is_trained,
         documents |-> r.documents, metadata |-> r.metadata]

\* the store as add_documents leaves it without a call of encode and add
NoChunksAdded(error) ==
    [raised |-> error, encoded |-> <<>>, index |-> index, is_trained |-> is_trained,
     documents |-> documents, metadata |-> metadata]

\* faulty variant: when the loop raises, the chunks collected until then are
\* added before the exception leaves add_documents
add_documents_adds_collected(docs, chunk_method, chunk_size, md) ==
    LET l == add_documents_loop(docs, 0, chunk_method, chunk_size, md, <<>>, <<>>)
    IN  IF l.all_chunks = <<>> THEN NoChunksAdded(l.raised)
        ELSE AddChunks(l.raised, l.all_chunks, l.all_metadata)

\* faulty variant: encode and add are called with whatever was collected,
\* an empty batch included
add_documents_adds_empty(docs, chunk_method, chunk_size, md) ==
    LET l == add_documents_loop(docs, 0, chunk_method, chunk_size, md, <<>>, <<>>)
    IN  IF l.raised # "none" THEN NoChunksAdded(l.raised)
        ELSE AddChunks("none", l.all_chunks, l.all_metadata)

\* RAGPipeline.add_documents(documents, chunk_method, chunk_size, metadata)
add_documents(docs, chunk_method, chunk_size, md) ==
    LET l == add_documents_loop(docs, 0, chunk_method, chunk_size, md, <<>>, <<>>)
    IN  IF l.raised # "none" THEN NoChunksAdded(l.raised)
        ELSE IF l.all_chunks = <<>> THEN NoChunksAdded("none")
        ELSE AddChunks("none", l.all_chunks, l.all_metadata)

\* RAGPipeline(embedding_model, index_type)
InitPipeline ==
    /\ fn = "none"
    /\ ret = <<>>
    /\ NoMetricInputs
    /\ dimension = EmbeddingDim
    /\ index_type \in {"flat", "ivf"}
    /\ index = <<>>
    /\ index_d = dimension
    /\ is_trained = (index_type # "ivf")
    /\ documents = <<>>
    /\ metadata = <<>>
    /\ args = NoArgs
    /\ raised = "none"
    /\ NoEnv

\* The documents: two sentences, one word, a blank text
TwoSentences == <<"w", ".", " ", "w", ".">>
OneWord == <<"w">>
Blank == <<" ">>
DocumentLists ==
    {<<>>, <<Blank, Blank>>, <<TwoSentences>>, <<OneWord, TwoSentences>>, <<Blank, OneWord>>}
ChunkMethods == {"sentences", "tokens", "paragraphs", "words"}
ChunkSizes == {1, 2}
\* the dicts a caller gives for a document: one has a key of its own, one
\* a key that add_documents sets as well
DocumentDicts == MetaDicts \cup {{<<"doc_id", 9>>}}
DocumentMetadata ==
    {None} \cup {Some(<<x>>) : x \in MetaDicts}
           \cup {Some(<<x, x>>) : x \in DocumentDicts \ MetaDicts}

AddDocuments ==
    \E docs \in DocumentLists : \E chunk_method \in ChunkMethods :
    \E chunk_size \in ChunkSizes : \E md \in DocumentMetadata :
        \E r \in {add_documents(docs, chunk_method, chunk_size, md)} :
            /\ Len(r.documents) <= MaxStore
            /\ fn' = "add_documents"
            /\ args' = [documents |-> docs, n_documents |-> Len(docs),
                        chunk_method |-> chunk_method, chunk_size |-> chunk_size,
                        metadata |-> md]
            /\ raised' = r.raised
            /\ ret' = <<>>
            /\ encoded' = r.encoded
            /\ index' = r.index
            /\ is_trained' = r.is_trained
            /\ documents' = r.documents
            /\ metadata' = r.metadata
            /\ UNCHANGED <<metricVars, disk, threads, objects, historyVars, appVars,
                           dimension, index_type, index_d>>

\* pipeline.vector_store.add(...) with rows and texts of the caller: rows of
\* the store's width or of another, as many texts as rows or not
StoreAddCalls ==
    {[embeddings |-> [i \in 1..n |-> ZeroVector(w)], width |-> w,
      documents |-> [i \in 1..m |-> OneWord], metadata |-> None] :
        n \in BatchSizes, m \in BatchSizes, w \in {EmbeddingDim, EmbeddingDim + 1}}

StoreAdd ==
    \E c \in StoreAddCalls :
        \E r \in {add(c.embeddings, c.width, c.documents, c.metadata)} :
            /\ Len(r.documents) <= MaxStore
            /\ fn' = "add"
            /\ args' = [shape |-> <<Len(c.embeddings), c.width>>,
                        n_documents |-> Len(c.documents), metadata |-> c.metadata]
            /\ raised' = r.raised
            /\ ret' = <<>>
            /\ encoded' = <<>>
            /\ index' = r.index
            /\ is_trained' = r.is_trained
            /\ documents' = r.documents
            /\ metadata' = r.metadata
            /\ UNCHANGED <<metricVars, disk, threads, objects, historyVars, appVars,
                           dimension, index_type, index_d>>

NextPipeline == AddDocuments \/ StoreAdd
SpecPipeline == InitPipeline /\ [][NextPipeline]_vars

----------------------------------------------------------------------------
(* Overlapping calls on one VectorStore                                    *)
(*                                                                         *)
(* VectorStore takes no lock.  Two threads call add and search on the     *)
(* same store; each statement of a method that reads or writes the store   *)
(* is one step, and the steps of the two threads interleave.  Each step is *)
(* taken as atomic, which is the least a thread switch can do: faiss       *)
(* releases the interpreter lock inside index.add and index.search.       *)
(* threads[t] is the position of thread t in its call and the locals of    *)
(* that call.  Thread t adds batches of one entry whose vector, text and   *)
(* metadata name the thread.                                               *)

Threads == {1, 2}
Idle == [pc |-> "idle"]

\* the arguments of the add of thread t
BatchOf(t) ==
    [embeddings |-> << <<t - 1>> >>,
     documents |-> <<IF t = 1 THEN "a" ELSE "b">>,
     metadata |-> << {<<"tag", t>>} >>]

\* VectorStore(1, "flat") shared by the threads
InitThreads ==
    /\ fn = "none"
    /\ ret = <<>>
    /\ NoMetricInputs
    /\ dimension = 1
    /\ index_type = "flat"
    /\ index = <<>>
    /\ index_d = dimension
    /\ is_trained = TRUE
    /\ documents = <<>>
    /\ metadata = <<>>
    /\ args = NoArgs
    /\ raised = "none"
    /\ disk = NoFiles
    /\ encoded = <<>>
    /\ threads = [t \in Threads |-> Idle]
    /\ objects = <<>>
    /\ search_logs = <<>>
    /\ sqlite_sequence = 0
    /\ json_file = None
    /\ semantic_engine = None
    /\ history_db = None

\* add up to self.index.add(embeddings): the lengths agree, the rows go in
AddIndexAdd(t) ==
    /\ threads[t].pc = "idle"
    /\ Len(index) < MaxStore
    /\ index' = index \o BatchOf(t).embeddings
    /\ threads' = [threads EXCEPT ![t] = [pc |-> "add_documents_extend"]]
    /\ UNCHANGED <<fn, ret, args, raised, metricVars, disk, encoded, objects, historyVars,
                   appVars, dimension,
                   index_type, index_d, is_trained, documents, metadata>>

\* self.documents.extend(documents)
AddDocumentsExtend(t) ==
    /\ threads[t].pc = "add_documents_extend"
    /\ documents' = documents \o BatchOf(t).documents
    /\ threads' = [threads EXCEPT ![t] = [pc |-> "add_metadata_extend"]]
    /\ UNCHANGED <<fn, ret, args, raised, metricVars, disk, encoded, objects, historyVars,
                   appVars, dimension,
                   index_type, index, index_d, is_trained, metadata>>

\* self.metadata.extend(metadata), and add returns
AddMetadataExtend(t) ==
    /\ threads[t].pc = "add_metadata_extend"
    /\ metadata' = metadata \o BatchOf(t).metadata
    /\ threads' = [threads EXCEPT ![t] = Idle]
    /\ fn' = "add"
    /\ args' = [thread |-> t]
    /\ raised' = "none"
    /\ ret' = <<>>
    /\ UNCHANGED <<metricVars, disk, encoded, objects, historyVars,
                   appVars, dimension, index_type, index, index_d,
                   is_trained, documents>>

\* search up to `if len(self.documents) == 0: return []`
SearchLen(t) ==
    \E query_embedding \in Vectors : \E kk \in 1..MaxStore :
        /\ threads[t].pc = "idle"
        /\ IF Len(documents) = 0
           THEN /\ fn' = "search"
                /\ args' = [thread |-> t, query_embedding |-> query_embedding,
                            k |-> kk, threshold |-> None]
                /\ raised' = "none"
                /\ ret' = <<>>
                /\ UNCHANGED threads
           ELSE /\ threads' = [threads EXCEPT ![t] =
                                  [pc |-> "search_index",
                                   query_embedding |-> query_embedding, k |-> kk]]
                /\ UNCHANGED <<fn, ret, args, raised>>
        /\ UNCHANGED <<metricVars, storeVars, disk, encoded,
                   objects, historyVars, appVars>>

\* distances, indices = self.index.search(query_embedding, min(k, len(self.documents)))
SearchIndex(t) ==
    /\ threads[t].pc = "search_index"
    /\ threads' = [threads EXCEPT ![t] =
                      [pc |-> "search_loop",
                       query_embedding |-> threads[t].query_embedding,
                       k |-> threads[t].k,
                       hits |-> index_search(threads[t].query_embedding,
                                             Min(threads[t].k, Len(documents)))]]
    /\ UNCHANGED <<fn, ret, args, raised, metricVars, storeVars, disk, encoded,
                   objects, historyVars, appVars>>

\* the loop over the hits, and search returns
SearchLoop(t) ==
    /\ threads[t].pc = "search_loop"
    /\ \E r \in {search_loop(threads[t].hits, None, <<>>)} :
          /\ fn' = "search"
          /\ args' = [thread |-> t, query_embedding |-> threads[t].query_embedding,
                      k |-> threads[t].k, threshold |-> None]
          /\ raised' = r.raised
          /\ ret' = r.value
    /\ threads' = [threads EXCEPT ![t] = Idle]
    /\ UNCHANGED <<metricVars, storeVars, disk, encoded,
                   objects, historyVars, appVars>>

NextThreads ==
    \E t \in Threads :
        \/ AddIndexAdd(t)
        \/ AddDocumentsExtend(t)
        \/ AddMetadataExtend(t)
        \/ SearchLen(t)
        \/ SearchIndex(t)
        \/ SearchLoop(t)
SpecThreads == InitThreads /\ [][NextThreads]_vars

----------------------------------------------------------------------------
(* The dict objects of VectorStore.metadata                                *)
(*                                                                         *)
(* A Python list holds references.  objects[i] names the dict object that  *)
(* metadata[i] refers to; two entries with the same object are one dict,   *)
(* and an assignment through either is seen through both.  search puts the *)
(* stored object itself into its result.                                   *)

\* the objects metadata.extend appends: the dicts of the caller, or
\* len(documents) references to the one dict of [{}] * len(documents)
extend_objects(docs, md) ==
    IF md # None /\ ValueOf(md) # <<>>
    THEN objects \o [i \in 1..Len(ValueOf(md)) |-> Len(objects) + i]
    ELSE objects \o [i \in 1..Len(docs) |-> Len(objects) + 1]

\* the entries (idx) whose metadata the loop of search puts into the results
RECURSIVE result_entries(_, _)
result_entries(hits, threshold) ==
    IF hits = <<>> THEN <<>>
    ELSE LET dist == hits[1].dist
             idx == hits[1].idx
         IN  IF idx < 0 \/ idx >= Len(documents)
             THEN result_entries(Tail(hits), threshold)
             ELSE IF threshold # None /\ dist > ValueOf(threshold)
             THEN result_entries(Tail(hits), threshold)
             ELSE <<idx>> \o result_entries(Tail(hits), threshold)

\* VectorStore(1, "flat")
InitObjects ==
    /\ fn = "none"
    /\ ret = <<>>
    /\ NoMetricInputs
    /\ dimension = 1
    /\ index_type = "flat"
    /\ index = <<>>
    /\ index_d = dimension
    /\ is_trained = TRUE
    /\ documents = <<>>
    /\ metadata = <<>>
    /\ args = NoArgs
    /\ raised = "none"
    /\ NoEnv

\* the calls of add with as many rows as texts and, when given, as many
\* dicts, each dict an object of its own; the texts play no part here
TrackedCalls ==
    {[embeddings |-> e, width |-> dimension,
      documents |-> [i \in 1..Len(e) |-> "a"], metadata |-> md] :
        e \in UNION {[1..n -> Vectors] : n \in BatchSizes},
        md \in {None} \cup {Some([i \in 1..m |-> x]) : m \in BatchSizes, x \in MetaDicts}}

AddTracked ==
    \E c \in TrackedCalls :
        \E r \in {add(c.embeddings, c.width, c.documents, c.metadata)} :
            /\ c.metadata # None => Len(ValueOf(c.metadata)) = Len(c.documents)
            /\ Len(r.documents) <= MaxStore
            /\ fn' = "add"
            /\ args' = [shape |-> <<Len(c.embeddings), c.width>>,
                        n_documents |-> Len(c.documents), metadata |-> c.metadata]
            /\ raised' = r.raised
            /\ ret' = <<>>
            /\ index' = r.index
            /\ is_trained' = r.is_trained
            /\ documents' = r.documents
            /\ metadata' = r.metadata
            /\ objects' = IF r.raised = "none"
                          THEN extend_objects(c.documents, c.metadata) ELSE objects
            /\ UNCHANGED <<metricVars, disk, encoded, threads, historyVars, appVars,
                           dimension, index_type, index_d>>

\* search for a vector of the store's width, without a threshold or with
\* threshold 0
SearchTracked ==
    \E query_embedding \in Vectors :
    \E kk \in 1..MaxStore :
    \E threshold \in {None, Some(0)} :
        \E r \in {search(query_embedding, kk, threshold)} :
            /\ fn' = "search"
            /\ args' = [query_embedding |-> query_embedding, k |-> kk,
                        threshold |-> threshold]
            /\ raised' = r.raised
            /\ ret' = r.value
            /\ UNCHANGED <<metricVars, envVars, storeVars>>

\* the items a caller assigns in the dict of a search result
Items == {<<"seen", 1>>}

\* results[i][2][key] = value on the results of the search before: the dict
\* is the stored object, so every entry and result that refers to it changes
SetItem ==
    /\ fn = "search"
    /\ raised = "none"
    /\ \E i \in 1..Len(ret) : \E item \in Items :
        \E entries \in {result_entries(
                            index_search(args.query_embedding,
                                         Min(args.k, Len(documents))),
                            args.threshold)} :
            /\ metadata' = [j \in 1..Len(metadata) |->
                               IF objects[j] = objects[entries[i] + 1]
                               THEN dict_update(metadata[j], {item})
                               ELSE metadata[j]]
            /\ ret' = [r \in 1..Len(ret) |->
                          IF objects[entries[r] + 1] = objects[entries[i] + 1]
                          THEN <<ret[r][1], ret[r][2], dict_update(ret[r][3], {item})>>
                          ELSE ret[r]]
            /\ args' = [entry |-> entries[i], item |-> item]
    /\ fn' = "setitem"
    /\ raised' = "none"
    /\ UNCHANGED <<metricVars, envVars, dimension, index_type, index, index_d,
                   is_trained, documents>>

NextObjects == AddTracked \/ SearchTracked \/ SetItem
SpecObjects == InitObjects /\ [][NextObjects]_vars

----------------------------------------------------------------------------
(* SearchHistoryDB                                                         *)
(*                                                                         *)
(* Table search_logs has an AUTOINCREMENT id, so a new row gets an id      *)
(* above every id given out before.  Each method runs in one transaction:  *)
(* it either commits all its statements or, on an exception, none.  A row  *)
(* is a record; column files holds JSON text.  The JSON file of export and *)
(* import is a list of entries, an entry holding each key or not.          *)

MAX_HISTORY == 2   \* rows kept in search_logs (200 unless configured)
MaxRowId == 4      \* the calls stop when the ids reach this value

\* json.dumps and json.loads of a list of strings
json_dumps(x) == <<"json", x>>
json_loads(t) == t[2]

\* INSERT INTO search_logs (pattern, timestamp, match_count, files)
insert(rows, seq, pattern, timestamp, match_count, files) ==
    Append(rows, [id |-> seq + 1, pattern |-> pattern, timestamp |-> timestamp,
                  match_count |-> match_count, files |-> files])

\* ORDER BY id DESC of rows held by ascending id
order_by_id_desc(rows) == [i \in 1..Len(rows) |-> rows[Len(rows) - i + 1]]

\* LIMIT n: a negative n is no limit
limit(rows, n) == IF n < 0 THEN rows ELSE SubSeq(rows, 1, Min(n, Len(rows)))

RECURSIVE select(_, _)
select(rows, ids) ==
    IF rows = <<>> THEN <<>>
    ELSE (IF rows[1].id \in ids THEN <<rows[1]>> ELSE <<>>) \o select(Tail(rows), ids)

\* faulty variant: the rows of the lowest ids are kept
delete_old_keeps_oldest(rows) ==
    LET kept == limit(rows, MAX_HISTORY)
    IN  select(rows, {kept[i].id : i \in 1..Len(kept)})

\* DELETE FROM search_logs WHERE id NOT IN
\*     (SELECT id FROM search_logs ORDER BY id DESC LIMIT MAX_HISTORY)
delete_old(rows) ==
    LET kept == limit(order_by_id_desc(rows), MAX_HISTORY)
    IN  select(rows, {kept[i].id : i \in 1..Len(kept)})

\* SELECT pattern, timestamp, match_count, files
columns(rows) ==
    [i \in 1..Len(rows) |->
        <<rows[i].pattern, rows[i].timestamp, rows[i].match_count, rows[i].files>>]

\* SearchHistoryDB.log_search at time now: the table and its sequence after
log_search(pattern, match_count, files, now) ==
    [search_logs |-> delete_old(insert(search_logs, sqlite_sequence, pattern, now,
                                       match_count, json_dumps(files))),
     sqlite_sequence |-> sqlite_sequence + 1]

\* SearchHistoryDB.get_recent(limit)
get_recent(n) == columns(limit(order_by_id_desc(search_logs), n))

\* SearchHistoryDB.list_all(limit): the query of list_all has no LIMIT
list_all(n) == columns(order_by_id_desc(search_logs))

\* the data export_to_json writes
export_data ==
    LET rows == list_all(None)
    IN  [i \in 1..Len(rows) |->
            [pattern |-> Some(rows[i][1]), timestamp |-> Some(rows[i][2]),
             match_count |-> Some(rows[i][3]), files |-> Some(json_loads(rows[i][4]))]]

\* entry.get(key, default) and entry[key] of an entry that holds the key
get(field, default) == IF field = None THEN default ELSE ValueOf(field)

\* the loop of import_from_json over the entries of the file
RECURSIVE import_loop(_, _, _, _)
import_loop(data, rows, seq, now) ==
    IF data = <<>> THEN [raised |-> "none", rows |-> rows, seq |-> seq]
    ELSE LET entry == data[1]
         IN  IF entry.pattern = None
             THEN [raised |-> "KeyError", rows |-> rows, seq |-> seq]
             ELSE import_loop(Tail(data),
                      insert(rows, seq, ValueOf(entry.pattern),
                             get(entry.timestamp, now), get(entry.match_count, 0),
                             json_dumps(get(entry.files, <<>>))),
                      seq + 1, now)

\* SearchHistoryDB.import_from_json at time now: an exception rolls the
\* transaction back
import_from_json(now) ==
    IF json_file = None
    THEN [raised |-> "FileNotFoundError", ret |-> <<>>, search_logs |-> search_logs,
          sqlite_sequence |-> sqlite_sequence]
    ELSE LET l == import_loop(ValueOf(json_file), search_logs, sqlite_sequence, now)
         IN  IF l.raised # "none"
             THEN [raised |-> l.raised, ret |-> <<>>, search_logs |-> search_logs,
                   sqlite_sequence |-> sqlite_sequence]
             ELSE [raised |-> "none", ret |-> Len(ValueOf(json_file)),
                   search_logs |-> delete_old(l.rows), sqlite_sequence |-> l.seq]

\* GET /api/v1/history?limit=n
get_history(n) ==
    LET all_history == list_all(n)
    IN  [history |-> [i \in 1..Len(all_history) |->
                         [pattern |-> all_history[i][1], timestamp |-> all_history[i][2],
                          matches_count |-> all_history[i][3]]],
         count |-> Len(all_history)]

Patterns == {"a", "b"}
Clock == {"t1"}
Limits == {-1, 0, 1, MAX_HISTORY}

\* entries of a file written by hand: one with the pattern only, one without it
Bare == [pattern |-> Some("b"), timestamp |-> None, match_count |-> None, files |-> None]
NoPattern == [pattern |-> None, timestamp |-> Some("t0"), match_count |-> Some(1),
              files |-> Some(<<"f">>)]
HandWritten == {<<Bare>>, <<Bare, NoPattern>>}

\* SearchHistoryDB(db_path) on a path without a database, no JSON file yet
InitHistory ==
    /\ fn = "none"
    /\ ret = <<>>
    /\ NoMetricInputs
    /\ NoStore
    /\ args = NoArgs
    /\ raised = "none"

historyFrame == <<metricVars, storeVars, disk, encoded, threads, objects, appVars>>

\* SearchHistoryDB(db_path) on another path without a database
NewDatabase ==
    /\ fn' = "SearchHistoryDB"
    /\ args' = NoArgs
    /\ raised' = "none"
    /\ ret' = <<>>
    /\ search_logs' = <<>>
    /\ sqlite_sequence' = 0
    /\ UNCHANGED <<historyFrame, json_file>>

LogSearch ==
    \E pattern \in Patterns : \E now \in Clock :
    \E r \in {log_search(pattern, 0, <<"web_input">>, now)} :
        /\ r.sqlite_sequence <= MaxRowId
        /\ fn' = "log_search"
        /\ args' = [pattern |-> pattern]
        /\ raised' = "none"
        /\ ret' = <<>>
        /\ search_logs' = r.search_logs
        /\ sqlite_sequence' = r.sqlite_sequence
        /\ UNCHANGED <<historyFrame, json_file>>

GetRecent ==
    \E n \in Limits :
        /\ fn' = "get_recent"
        /\ args' = [limit |-> n]
        /\ raised' = "none"
        /\ ret' = get_recent(n)
        /\ UNCHANGED <<historyFrame, historyVars>>

ListAll ==
    \E n \in Limits :
        /\ fn' = "list_all"
        /\ args' = [limit |-> n]
        /\ raised' = "none"
        /\ ret' = list_all(n)
        /\ UNCHANGED <<historyFrame, historyVars>>

ExportToJson ==
    /\ fn' = "export_to_json"
    /\ args' = NoArgs
    /\ raised' = "none"
    /\ ret' = Len(export_data)
    /\ json_file' = Some(export_data)
    /\ UNCHANGED <<historyFrame, search_logs, sqlite_sequence>>

\* a file the user wrote
WriteJson ==
    \E data \in HandWritten :
        /\ fn' = "write_text"
        /\ args' = NoArgs
        /\ raised' = "none"
        /\ ret' = <<>>
        /\ json_file' = Some(data)
        /\ UNCHANGED <<historyFrame, search_logs, sqlite_sequence>>

\* args records whether the database was empty before the call
ImportFromJson ==
    \E now \in Clock : \E r \in {import_from_json(now)} :
        /\ r.sqlite_sequence <= MaxRowId
        /\ fn' = "import_from_json"
        /\ args' = [empty |-> search_logs = <<>>]
        /\ raised' = r.raised
        /\ ret' = r.ret
        /\ search_logs' = r.search_logs
        /\ sqlite_sequence' = r.sqlite_sequence
        /\ UNCHANGED <<historyFrame, json_file>>

GetHistory ==
    \E n \in Limits :
        /\ n >= 0
        /\ fn' = "get_history"
        /\ args' = [limit |-> n]
        /\ raised' = "none"
        /\ ret' = get_history(n)
        /\ UNCHANGED <<historyFrame, historyVars>>

NextHistory ==
    \/ NewDatabase
    \/ LogSearch
    \/ GetRecent
    \/ ListAll
    \/ ExportToJson
    \/ WriteJson
    \/ ImportFromJson
    \/ GetHistory
SpecHistory == InitHistory /\ [][NextHistory]_vars

----------------------------------------------------------------------------
(* The web app                                                             *)
(*                                                                         *)
(* The handlers of /search and /semantic share the module globals          *)
(* semantic_engine and history_db, which init_engines sets on first use.   *)
(* The server runs the requests in threads and the globals have no lock:   *)
(* a read of the globals in a condition is one step and each assignment of *)
(* init_engines is one step.  threads[t] holds the handler thread t runs,  *)
(* whether its request has both fields, and its position.                  *)

\* thread t has passed the initialization guard of its handler
AfterGuard(t, handler, valid) ==
    threads' = [threads EXCEPT ![t] = [pc |-> "body", handler |-> handler,
                                       valid |-> valid]]

\* thread t is in init_engines, called from the guard of its handler
InInitEngines(t, pc, handler, valid) ==
    threads' = [threads EXCEPT ![t] = [pc |-> pc, handler |-> handler,
                                       valid |-> valid]]

\* the app is imported: both globals None, the history database empty
InitApp ==
    /\ fn = "none"
    /\ ret = <<>>
    /\ NoMetricInputs
    /\ dimension = 0
    /\ index_type = "none"
    /\ index = <<>>
    /\ index_d = 0
    /\ is_trained = FALSE
    /\ documents = <<>>
    /\ metadata = <<>>
    /\ args = NoArgs
    /\ raised = "none"
    /\ disk = NoFiles
    /\ encoded = <<>>
    /\ objects = <<>>
    /\ search_logs = <<>>
    /\ sqlite_sequence = 0
    /\ json_file = None
    /\ semantic_engine = None
    /\ history_db = None
    /\ threads = [t \in Threads |-> Idle]

appFrame == <<metricVars, storeVars, disk, encoded, objects>>

\* the requests in progress
InProgress == {t \in Threads : threads[t].pc # "idle"}

\* POST /search arrives: `if history_db is None: init_engines()`
SearchRegexGuard(t) ==
    \E valid \in BOOLEAN :
        /\ threads[t].pc = "idle"
        /\ sqlite_sequence + Cardinality(InProgress) < MaxRowId
        /\ IF history_db = None
           THEN InInitEngines(t, "init_engines", "search_regex", valid)
           ELSE AfterGuard(t, "search_regex", valid)
        /\ UNCHANGED <<fn, ret, args, raised, appFrame, historyVars, appVars>>

\* POST /semantic arrives: a request without keyword or text is answered
\* with 400 before the guard; else
\* `if semantic_engine is None or history_db is None: init_engines()`
SearchSemanticGuard(t) ==
    \E valid \in BOOLEAN :
        /\ threads[t].pc = "idle"
        /\ sqlite_sequence + Cardinality(InProgress) < MaxRowId
        /\ IF ~valid
           THEN /\ fn' = "search_semantic"
                /\ args' = [thread |-> t, valid |-> valid]
                /\ raised' = "none"
                /\ ret' = [status |-> 400]
                /\ UNCHANGED threads
           ELSE /\ IF semantic_engine = None \/ history_db = None
                   THEN InInitEngines(t, "init_engines", "search_semantic", valid)
                   ELSE AfterGuard(t, "search_semantic", valid)
                /\ UNCHANGED <<fn, ret, args, raised>>
        /\ UNCHANGED <<appFrame, historyVars, appVars>>

\* init_engines: `if semantic_engine is None:`
InitEnginesCheck(t) ==
    /\ threads[t].pc = "init_engines"
    /\ IF semantic_engine = None
       THEN InInitEngines(t, "init_semantic_engine", threads[t].handler,
                          threads[t].valid)
       ELSE AfterGuard(t, threads[t].handler, threads[t].valid)
    /\ UNCHANGED <<fn, ret, args, raised, appFrame, historyVars, appVars>>

\* init_engines: semantic_engine = SemanticEngine()
InitSemanticEngine(t) ==
    /\ threads[t].pc = "init_semantic_engine"
    /\ semantic_engine' = Some("SemanticEngine")
    /\ InInitEngines(t, "init_history_db", threads[t].handler, threads[t].valid)
    /\ UNCHANGED <<fn, ret, args, raised, appFrame, historyVars, history_db>>

\* init_engines: history_db = SearchHistoryDB(), and init_engines returns
InitHistoryDb(t) ==
    /\ threads[t].pc = "init_history_db"
    /\ history_db' = Some("SearchHistoryDB")
    /\ AfterGuard(t, threads[t].handler, threads[t].valid)
    /\ UNCHANGED <<fn, ret, args, raised, appFrame, historyVars, semantic_engine>>

\* the response of a handler that logged the search
Logged(t, handler) ==
    \E now \in Clock : \E r \in {log_search("a", 0, <<"web_input">>, now)} :
        /\ fn' = handler
        /\ args' = [thread |-> t, valid |-> TRUE]
        /\ raised' = "none"
        /\ search_logs' = r.search_logs
        /\ sqlite_sequence' = r.sqlite_sequence
        /\ ret' = [status |-> 200,
                   history |-> columns(order_by_id_desc(r.search_logs))]

\* a call of a method of None
OnNone(t, handler) ==
    /\ fn' = handler
    /\ args' = [thread |-> t, valid |-> TRUE]
    /\ raised' = "AttributeError"
    /\ ret' = [status |-> 500]
    /\ UNCHANGED <<search_logs, sqlite_sequence>>

\* search_regex after the guard: 400 for a request without pattern or text,
\* else history_db.log_search and history_db.list_all
SearchRegexBody(t) ==
    /\ threads[t].pc = "body"
    /\ threads[t].handler = "search_regex"
    /\ IF ~threads[t].valid
       THEN /\ fn' = "search_regex"
            /\ args' = [thread |-> t, valid |-> FALSE]
            /\ raised' = "none"
            /\ ret' = [status |-> 400]
            /\ UNCHANGED <<search_logs, sqlite_sequence>>
       ELSE IF history_db = None THEN OnNone(t, "search_regex")
       ELSE Logged(t, "search_regex")
    /\ threads' = [threads EXCEPT ![t] = Idle]
    /\ UNCHANGED <<appFrame, json_file, appVars>>

\* search_semantic after the guard: semantic_engine.find_semantic_matches,
\* history_db.log_search and history_db.list_all
SearchSemanticBody(t) ==
    /\ threads[t].pc = "body"
    /\ threads[t].handler = "search_semantic"
    /\ IF semantic_engine = None \/ history_db = None
       THEN OnNone(t, "search_semantic")
       ELSE Logged(t, "search_semantic")
    /\ threads' = [threads EXCEPT ![t] = Idle]
    /\ UNCHANGED <<appFrame, json_file, appVars>>

\* @patch('deepgrep.web.app.semantic_engine') of the tests, entered while
\* the global is None and no request runs
Patch ==
    /\ InProgress = {}
    /\ semantic_engine = None
    /\ semantic_engine' = Some("MagicMock")
    /\ UNCHANGED <<fn, ret, args, raised, appFrame, historyVars, history_db, threads>>

\* the patch ends and restores the global
Unpatch ==
    /\ InProgress = {}
    /\ semantic_engine = Some("MagicMock")
    /\ semantic_engine' = None
    /\ UNCHANGED <<fn, ret, args, raised, appFrame, historyVars, history_db, threads>>

NextApp ==
    \/ Patch
    \/ Unpatch
    \/ \E t \in Threads :
          \/ SearchRegexGuard(t)
          \/ SearchSemanticGuard(t)
          \/ InitEnginesCheck(t)
          \/ InitSemanticEngine(t)
          \/ InitHistoryDb(t)
          \/ SearchRegexBody(t)
          \/ SearchSemanticBody(t)
SpecApp == InitApp /\ [][NextApp]_vars

----------------------------------------------------------------------------
(* Properties of the metric functions *)

MetricNames == {"precision", "recall", "f1_score", "average_precision",
                "mean_average_precision", "ndcg", "mrr"}

\* C1: every metric function returns, without raising, a value in [0, 1] for
\* every input, ranked lists that repeat an identifier included.
C1_MetricsInUnitInterval == fn \in MetricNames => InUnit(ret)

\* the number of retrieved documents that are relevant, counted one by one
TruePositives == Cardinality({x \in retrieved : x \in relevant})

\* C2: precision(R, L) is |R & L| / |R| for non-empty R and 0 for empty R;
\* precision({1,2,3,4}, {2,3,4,5}) is 0.75.
C2_Precision ==
    fn = "precision" =>
        /\ ~Raised(ret)
        /\ retrieved = {} => ret[1] = 0
        /\ retrieved # {} => ret[1] * Cardinality(retrieved) = TruePositives * ret[2]
        /\ (retrieved = {1, 2, 3, 4} /\ relevant = {2, 3, 4, 5}) => REq(ret, <<3, 4>>)

C2_Witness ==
    /\ fn = "precision"
    /\ retrieved = {1, 2, 3, 4}
    /\ relevant = {2, 3, 4, 5}
    /\ REq(ret, <<3, 4>>)

\* C3: recall(R, L) is |R & L| / |L| for non-empty L and 0 for empty L,
\* whether or not R is empty.
C3_Recall ==
    fn = "recall" =>
        /\ ~Raised(ret)
        /\ relevant = {} => ret[1] = 0
        /\ relevant # {} => ret[1] * Cardinality(relevant) = TruePositives * ret[2]

C3_Witness ==
    /\ fn = "recall"
    /\ retrieved = {}
    /\ relevant = {1, 2, 3}
    /\ ret[1] = 0
    /\ ~Raised(ret)

\* precision and recall as fractions of the counts
PrecisionOfCounts == <<TruePositives, Cardinality(retrieved)>>
RecallOfCounts == <<TruePositives, Cardinality(relevant)>>

\* f is the harmonic mean of p and r, lies in [0, 1], and is 0 exactly when
\* p and r are both 0
IsHarmonicMean(f, p, r) ==
    /\ InUnit(f)
    /\ ~REq(RAdd(p, r), Zero) => REq(RMul(f, RAdd(p, r)), RMul(<<2, 1>>, RMul(p, r)))
    /\ REq(f, Zero) <=> (REq(p, Zero) /\ REq(r, Zero))

\* C4: for non-empty retrieved and relevant sets f1_score is the harmonic
\* mean 2PR/(P+R) of precision and recall, lies in [0, 1] and is 0 iff both
\* are 0; evaluate_all returns the same three values under its three keys.
C4_F1Score ==
    (retrieved # {} /\ relevant # {}) =>
        /\ fn = "f1_score" => IsHarmonicMean(ret, PrecisionOfCounts, RecallOfCounts)
        /\ fn = "evaluate_all" =>
              /\ DOMAIN ret = {"precision", "recall", "f1_score"}
              /\ REq(ret.precision, PrecisionOfCounts)
              /\ REq(ret.recall, RecallOfCounts)
              /\ InUnit(ret.precision)
              /\ InUnit(ret.recall)
              /\ IsHarmonicMean(ret.f1_score, PrecisionOfCounts, RecallOfCounts)

C4_Witness ==
    /\ fn = "f1_score"
    /\ retrieved = {1, 2, 3, 4}
    /\ relevant = {2, 3, 4, 5}
    /\ REq(ret, <<3, 4>>)

\* the ranks (1-based) of the ranked list whose item is relevant
RelevantRanks == {i \in 1..Len(retrieved_ranked) : retrieved_ranked[i] \in relevant}

\* the sum, over the ranks i of S, of (relevant items among the first i) / i
RECURSIVE SumPrecisionAt(_)
SumPrecisionAt(S) ==
    IF S = {} THEN Zero
    ELSE LET i == CHOOSE x \in S : TRUE
         IN  RAdd(<<Cardinality({j \in RelevantRanks : j <= i}), i>>,
                  SumPrecisionAt(S \ {i}))

\* C5: average_precision is the sum, over the ranks i whose item is
\* relevant, of (relevant items among the first i) / i, divided by |L|; it is
\* 0 when L is empty, the list is empty or no ranked item is relevant.
C5_AveragePrecision ==
    fn = "average_precision" =>
        /\ ~Raised(ret)
        /\ (relevant = {} \/ retrieved_ranked = <<>> \/ RelevantRanks = {})
              => ret[1] = 0
        /\ relevant # {} =>
              REq(RMul(ret, <<Cardinality(relevant), 1>>),
                  SumPrecisionAt(RelevantRanks))

C5_Witness ==
    /\ fn = "average_precision"
    /\ retrieved_ranked = <<1, 2, 3>>
    /\ relevant = {2, 3}
    /\ REq(ret, <<7, 12>>)

\* the ranked list is a permutation of the keys of the relevance mapping
IsOrderingOfScores ==
    /\ Len(retrieved_ranked) = Cardinality(DOMAIN relevance_scores)
    /\ {retrieved_ranked[i] : i \in 1..Len(retrieved_ranked)} = DOMAIN relevance_scores

\* the ranked list is in descending order of relevance
IsSortedByRelevance ==
    \A i \in 1..Len(retrieved_ranked) : \A j \in 1..Len(retrieved_ranked) :
        i < j => relevance_scores[retrieved_ranked[i]] >= relevance_scores[retrieved_ranked[j]]

\* C6: for a relevance mapping with at least one positive score and k >= 1,
\* ndcg of the identifiers sorted by descending relevance is exactly 1.0, and
\* any other ordering of the same identifiers gives a value <= 1.0.
C6_NdcgOfIdealRanking ==
    ( /\ fn = "ndcg"
      /\ k >= 1
      /\ \E d \in DOMAIN relevance_scores : relevance_scores[d] > 0
      /\ IsOrderingOfScores )
    => /\ IsSortedByRelevance => (~Raised(ret) /\ REq(ret, One))
       /\ ~Raised(ret) /\ RLe(ret, One)

\* the same statement for mappings without negative scores (holds)
NdcgOfIdealRankingNonNegative ==
    (\A d \in DOMAIN relevance_scores : relevance_scores[d] >= 0)
        => C6_NdcgOfIdealRanking

\* the 1-based rank of the first relevant item of query q, 0 if there is none
FirstRelevantRank(q) ==
    IF \E i \in 1..Len(q[1]) : q[1][i] \in q[2]
    THEN CHOOSE i \in 1..Len(q[1]) :
            /\ q[1][i] \in q[2]
            /\ \A j \in 1..(i - 1) : q[1][j] \notin q[2]
    ELSE 0

ReciprocalRank(q) ==
    IF FirstRelevantRank(q) = 0 THEN Zero ELSE <<1, FirstRelevantRank(q)>>

RECURSIVE SumReciprocalRanks(_)
SumReciprocalRanks(n) ==
    IF n = 0 THEN Zero
    ELSE RAdd(ReciprocalRank(queries_results[n]), SumReciprocalRanks(n - 1))

\* C7: mrr is the mean, over the queries, of 1 / (rank of the first relevant
\* item), a query without relevant item counting 0; mrr of no query is 0;
\* two queries with first relevant ranks 2 and 1 give 0.75.
C7_Mrr ==
    fn = "mrr" =>
        /\ ~Raised(ret)
        /\ queries_results = <<>> => ret[1] = 0
        /\ REq(RMul(ret, <<Len(queries_results), 1>>),
               SumReciprocalRanks(Len(queries_results)))
        /\ queries_results = << <<(<<1, 2>>), {2}>>, <<(<<2, 1>>), {2}>> >>
              => REq(ret, <<3, 4>>)

C7_Witness ==
    /\ fn = "mrr"
    /\ queries_results = << <<(<<1, 2>>), {2}>>, <<(<<2, 1>>), {2}>> >>
    /\ REq(ret, <<3, 4>>)

----------------------------------------------------------------------------
(* Properties of VectorStore *)

\* the distance of the last query to the entry at 1-based position e
DistanceTo(e) == fvec_L2sqr(args.query_embedding, index[e])

\* entry e comes before entry f in (distance, insertion order)
Before(e, f) ==
    \/ DistanceTo(e) < DistanceTo(f)
    \/ DistanceTo(e) = DistanceTo(f) /\ e < f

\* the results are the entries at the positions ids, in that order
ResultsAre(ids) ==
    /\ Len(ids) = Len(ret)
    /\ \A i \in 1..Len(ids) : \A j \in 1..Len(ids) : i # j => ids[i] # ids[j]
    /\ \A i \in 1..Len(ids) :
          /\ ids[i] <= Len(metadata)
          /\ ret[i] = <<documents[ids[i]], DistanceTo(ids[i]), metadata[ids[i]]>>

C9_SearchThreshold ==
    (fn = "search" /\ raised = "none" /\ args.threshold # None) =>
        LET t == ValueOf(args.threshold)
            unthresholded == search(args.query_embedding, args.k, None)
            Within(e) == e[2] <= t
        IN  /\ \A i \in 1..Len(ret) : ret[i][2] <= t
            /\ unthresholded.raised = "none" =>
                  ret = SelectSeq(unthresholded.value, Within)

\* a threshold of 0 keeps the entry at distance 0 and drops a farther one
C9_Witness ==
    /\ fn = "search"
    /\ raised = "none"
    /\ args.threshold = Some(0)
    /\ Len(ret) = 1
    /\ search(args.query_embedding, args.k, None).raised = "none"
    /\ Len(search(args.query_embedding, args.k, None).value) = 2

\* C10: add with a number of embeddings different from the number of texts
\* raises the length-mismatch error and leaves index, documents and
\* metadata (so len(store)) as they were.
C10_AddLengthMismatch ==
    [][(fn' = "add" /\ args'.shape[1] # args'.n_documents) =>
          /\ raised' = "ValueError"
          /\ index' = index
          /\ documents' = documents
          /\ metadata' = metadata]_vars

\* a rejected add on a store that holds a document
C10_Witness ==
    /\ fn = "add"
    /\ args.shape[1] # args.n_documents
    /\ raised = "ValueError"
    /\ len = 1
    /\ Len(index) = 1

\* C11: metadata given to add has as many entries as there are texts (a
\* list of another length is rejected), so that after any sequence of adds
\* the index, the documents and the metadata hold the same number of
\* entries and metadata[i] is the one supplied with documents[i].
C11_MetadataAligned ==
    /\ Len(metadata) = Len(documents)
    /\ Len(index) = Len(documents)
    /\ (fn = "add" /\ args.metadata # None
           /\ Len(ValueOf(args.metadata)) # args.n_documents) => raised # "none"

\* C12: every vector the store holds has the width of the store's dimension
\* attribute, after construction and after every add and load; an add of
\* embeddings of another width fails and stores nothing.
C12_StoredWidthIsDimension ==
    [][/\ \A i \in 1..Len(index') : Len(index'[i]) = dimension'
       /\ (fn' = "add" /\ args'.shape[2] # dimension) =>
              /\ raised' # "none"
              /\ index' = index
              /\ documents' = documents
              /\ metadata' = metadata]_vars

\* the queries of the snapshot checks: vectors of each width
QueriesOfDimensions == {<<0>>, <<1>>, <<0, 0>>, <<0, 1>>}

\* C15: for the 'flat' variant, load after save gives a store whose
\* search(q, k) returns what the saved store's search(q, k) returns (texts,
\* distances, metadata, order), for every q and k and whatever was added
\* before the save.
C15_SaveLoadRoundTrip ==
    [][(fn = "save" /\ raised = "none" /\ index_type = "flat" /\ fn' = "load") =>
          /\ raised' = "none"
          /\ \A q \in QueriesOfDimensions : \A kk \in 0..MaxStore :
             \A threshold \in Thresholds :
                 search(q, kk, threshold)' = search(q, kk, threshold)]_vars

\* a loaded store of two entries, the second with metadata, equal to the
\* snapshot on disk; the nearest entry of <<1>> is the second
C15_Witness ==
    /\ fn = "load"
    /\ raised = "none"
    /\ disk = save
    /\ index_type = "flat"
    /\ documents = <<"a", "b">>
    /\ search(<<1>>, 2, None).value = << <<"b", 0, {<<"tag", 1>>}>>, <<"a", 1, {}>> >>

\* the two files of a snapshot are of different stores
HalvesDisagree ==
    /\ disk.index_faiss # None
    /\ disk.data_pkl # None
    /\ \/ ValueOf(disk.index_faiss).d # ValueOf(disk.data_pkl).dimension
       \/ Len(ValueOf(disk.index_faiss).xb) # Len(ValueOf(disk.data_pkl).documents)

\* C16: the two halves of a snapshot are written and read together: load of
\* a snapshot whose halves disagree (in entry count or dimension, as after
\* a save interrupted between its two writes over an older snapshot) fails
\* and returns no store.
C16_LoadRejectsDisagreeingHalves ==
    [][(fn' = "load" /\ HalvesDisagree) => raised' # "none"]_vars

\* the earliest entry of the index that holds the vector q
EarliestEntry(q) ==
    CHOOSE e \in 1..Len(index) : index[e] = q /\ \A f \in 1..(e - 1) : index[f] # q

\* C17: on a 'flat' store that holds at least one vector, a search with one
\* of the stored vectors as the query and k >= 1 returns as its first
\* result the earliest entry that holds that vector, at distance 0.
C17_SelfQueryFirst ==
    (/\ fn = "search"
     /\ index_type = "flat"
     /\ args.k >= 1
     /\ \E e \in 1..Len(index) : index[e] = args.query_embedding) =>
        /\ raised = "none"
        /\ Len(ret) >= 1
        /\ ret[1] = <<documents[EarliestEntry(args.query_embedding)], 0,
                      metadata[EarliestEntry(args.query_embedding)]>>

\* C27: stored entries are independent: assigning in the metadata dict of one
\* search result changes the metadata of no other entry (in particular of no
\* other entry added without metadata), so later searches return the other
\* entries as before.
C27_EntriesIndependent ==
    [][fn' = "setitem" =>
          \A j \in 1..Len(metadata) :
              j # args'.entry + 1 => metadata'[j] = metadata[j]]_vars

----------------------------------------------------------------------------
(* Properties of RAGPipeline *)

\* C13: when VectorStore.add or RAGPipeline.add_documents raises (length
\* mismatch, metadata list shorter than the documents list, unknown chunk
\* method, chunking error on a later document, failure of the index
\* insertion), no entry of that call is in the index, the documents or the
\* metadata.
C13_FailedAddStoresNothing ==
    [][(fn' \in {"add", "add_documents"} /\ raised' # "none") =>
          /\ index' = index
          /\ documents' = documents
          /\ metadata' = metadata]_vars

\* add_documents of two documents with metadata for the first only: the
\* first document has a chunk when the lookup for the second raises; the
\* store holds what an earlier call put there
C13_Witness ==
    /\ fn = "add_documents"
    /\ raised = "IndexError"
    /\ args.n_documents = 2
    /\ args.chunk_method = "paragraphs"
    /\ len = 1
    /\ Len(index) = 1
    /\ Len(metadata) = 1

\* C18: add_documents with a chunk method other than 'sentences', 'tokens'
\* and 'paragraphs' raises the configuration error for every documents
\* list, the empty one included, before anything is encoded or inserted.
C18_UnknownChunkMethod ==
    [][(fn' = "add_documents"
            /\ args'.chunk_method \notin {"sentences", "tokens", "paragraphs"}) =>
          /\ raised' = "ValueError"
          /\ encoded' = <<>>
          /\ index' = index
          /\ documents' = documents
          /\ metadata' = metadata]_vars

\* the chunks of the documents of a call a of add_documents from document d
\* on, each with the 0-based position of its document and its own 0-based
\* position among the chunks of that document
RECURSIVE ChunksInOrder(_, _)
ChunksInOrder(a, d) ==
    IF d > Len(a.documents) THEN <<>>
    ELSE LET c == chunks_of(a.documents[d], a.chunk_method, a.chunk_size).value
         IN  [j \in 1..Len(c) |->
                 [text |-> c[j], doc_id |-> d - 1, chunk_id |-> j - 1,
                  total_chunks |-> Len(c)]] \o ChunksInOrder(a, d + 1)

\* the metadata the caller of a gave for the document at 0-based position d
DocumentDict(a, d) ==
    IF a.metadata = None THEN {} ELSE ValueOf(a.metadata)[d + 1]

PositionKeys == {"doc_id", "chunk_id", "total_chunks"}

\* the value of the dict m under key
Value(m, key) == {p[2] : p \in {q \in m : q[1] = key}}

\* C21: the entries add_documents appends are the chunks of docs[0], then
\* docs[1], ..., in chunker order; the metadata of each has doc_id = the
\* position of its document, total_chunks = the number of chunks of that
\* document and chunk_id = 0, 1, ..., total_chunks - 1 in insertion order;
\* these three keys override the same keys of the document's metadata, whose
\* other keys are kept.
C21_ChunkPositions ==
    [][(fn' = "add_documents" /\ raised' = "none") =>
          LET expected == ChunksInOrder(args', 1)
              first == Len(documents)
          IN  /\ Len(documents') = first + Len(expected)
              /\ Len(metadata') = Len(documents')
              /\ \A p \in 1..Len(expected) :
                    /\ documents'[first + p] = expected[p].text
                    /\ Value(metadata'[first + p], "doc_id") = {expected[p].doc_id}
                    /\ Value(metadata'[first + p], "chunk_id") = {expected[p].chunk_id}
                    /\ Value(metadata'[first + p], "total_chunks")
                           = {expected[p].total_chunks}
                    /\ expected[p].chunk_id < expected[p].total_chunks
                    /\ {q \in metadata'[first + p] : q[1] \notin PositionKeys}
                           = {q \in DocumentDict(args', expected[p].doc_id) :
                                 q[1] \notin PositionKeys}]_vars

\* one document of two chunks whose own metadata has a doc_id: the second
\* entry is chunk 1 of 2 of document 0
C21_Witness ==
    /\ fn = "add_documents"
    /\ raised = "none"
    /\ args.documents = <<TwoSentences>>
    /\ args.metadata = Some(<< {<<"doc_id", 9>>}, {<<"doc_id", 9>>} >>)
    /\ Len(documents) = 2
    /\ metadata[2] = {<<"doc_id", 0>>, <<"chunk_id", 1>>, <<"total_chunks", 2>>}

\* the index, the documents and the metadata have one length and every
\* position holds the vector, the text and the metadata of one add call
\* every document of the call is chunked without an exception and gives no chunk
NoChunks(a) ==
    \A d \in 1..Len(a.documents) :
        LET c == chunks_of(a.documents[d], a.chunk_method, a.chunk_size)
        IN  c.raised = "none" /\ c.value = <<>>

\* the call gives no metadata list or one with a dict for every document
MetadataCoversDocuments(a) ==
    \/ a.metadata = None
    \/ ValueOf(a.metadata) = <<>>
    \/ Len(ValueOf(a.metadata)) >= Len(a.documents)

\* add_documents returned without an exception, encoded nothing and left
\* the index, the documents and the metadata as they were
ReturnedWithoutEffect ==
    /\ raised' = "none"
    /\ encoded' = <<>>
    /\ UNCHANGED <<index, is_trained, documents, metadata>>

\* C22 as stated: whenever the chunking of every document gives no chunk (an
\* empty documents list, blank documents), add_documents returns normally,
\* does not call the embedder and leaves index, documents and metadata unchanged.
C22_NoChunksNoEffect ==
    [][(fn' = "add_documents" /\ NoChunks(args')) => ReturnedWithoutEffect]_vars

\* C22 amended: the same, for a call whose metadata list, when given, has a
\* dict for every document.
C22_NoChunksNoEffectCovered ==
    [][(fn' = "add_documents" /\ NoChunks(args') /\ MetadataCoversDocuments(args'))
          => ReturnedWithoutEffect]_vars

\* a call on two blank documents with a metadata dict for each returned and
\* the store holds the one entry it held before
C22_Witness ==
    /\ fn = "add_documents"
    /\ args.documents = <<Blank, Blank>>
    /\ args.chunk_method = "sentences"
    /\ args.metadata # None
    /\ raised = "none"
    /\ encoded = <<>>
    /\ Len(documents) = 1

ClaimedChunkMethods == {"sentences", "tokens", "paragraphs"}

\* the whitespace-delimited tokens of the texts, as a set
RECURSIVE TokensOf(_)
TokensOf(texts) ==
    IF texts = <<>> THEN {}
    ELSE {words_of(texts[1])[i] : i \in 1..Len(words_of(texts[1]))}
             \cup TokensOf(Tail(texts))

\* C26: for chunk_method 'sentences', 'tokens' or 'paragraphs' and every
\* chunk_size >= 1, add_documents on documents that hold a token (flat
\* index, metadata absent or one dict per document) returns normally,
\* inserts at least one chunk, and every token of the documents is a token
\* of an inserted chunk.
C26_ChunkSizeAlwaysChunks ==
    [][(/\ fn' = "add_documents"
        /\ index_type = "flat"
        /\ args'.chunk_method \in ClaimedChunkMethods
        /\ args'.chunk_size >= 1
        /\ MetadataCoversDocuments(args')
        /\ TokensOf(args'.documents) # {})
          => /\ raised' = "none"
             /\ Len(documents') > Len(documents)
             /\ TokensOf(args'.documents)
                    \subseteq TokensOf(SubSeq(documents', Len(documents) + 1,
                                              Len(documents')))]_vars

Aligned ==
    /\ Len(index) = Len(documents)
    /\ Len(metadata) = Len(documents)
    /\ \A i \in 1..Len(documents) : \E t \in Threads :
          /\ index[i] = BatchOf(t).embeddings[1]
          /\ documents[i] = BatchOf(t).documents[1]
          /\ metadata[i] = BatchOf(t).metadata[1]

\* C14: when add and search, or two adds, overlap on one VectorStore, no
\* search reads a partially inserted batch, the store is aligned (equal
\* lengths, position i of index, documents and metadata from the same add)
\* wherever a search reads it and after all calls have returned, and no
\* search raises because of an overlapping add.
C14_OverlapIsExcluded ==
    /\ (\A t \in Threads : threads[t].pc = "idle") => Aligned
    /\ \A t \in Threads : threads[t].pc \in {"search_index", "search_loop"} => Aligned
    /\ fn = "search" => raised = "none"

----------------------------------------------------------------------------
(* Properties of DocumentChunker *)

WindowChunkers == {"chunk_by_sentences", "chunk_by_tokens"}

\* the units a window chunker cuts a text into
UnitsOf(f, text) ==
    IF f = "chunk_by_sentences" THEN sentences_of(text) ELSE words_of(text)

\* the chunks of windows that start at every unit
ChunksOfStepOne(units, size) == window_loop(units, range_up(0, Len(units), 1), size)

\* C19: with overlap >= window size (a step that is not positive) the
\* sentence-window and token-window chunkers either raise a configuration
\* error or chunk with step 1; they never return zero chunks for a text
\* that is not blank, and they terminate.
C19_NonPositiveStep ==
    (fn \in WindowChunkers /\ args.overlap >= args.chunk_size) =>
        \/ raised # "none"
        \/ ret = ChunksOfStepOne(UnitsOf(fn, args.text), args.chunk_size)

RECURSIVE Flatten(_)
Flatten(lists) == IF lists = <<>> THEN <<>> ELSE lists[1] \o Flatten(Tail(lists))

\* C20: with overlap = 0 and a window size >= 1, the units of the chunks of
\* chunk_by_sentences (chunk_by_tokens), taken in order, are the non-empty
\* sentences (the whitespace-delimited tokens) of the text: each unit is in
\* exactly one chunk, in order, none missing and none repeated.
C20_ChunksReconstructUnits ==
    (fn \in WindowChunkers /\ args.overlap = 0) =>
        /\ raised = "none"
        /\ Flatten([i \in 1..Len(ret) |-> UnitsOf(fn, ret[i])]) = UnitsOf(fn, args.text)
        /\ \A i \in 1..Len(ret) :
              /\ Len(UnitsOf(fn, ret[i])) \in 1..args.chunk_size
              /\ i < Len(ret) => Len(UnitsOf(fn, ret[i])) = args.chunk_size

\* three sentences in windows of two: a chunk of two sentences, then one
C20_Witness ==
    /\ fn = "chunk_by_sentences"
    /\ args.overlap = 0
    /\ args.chunk_size = 2
    /\ raised = "none"
    /\ Len(sentences_of(args.text)) = 3
    /\ Len(ret) = 2
    /\ Len(sentences_of(ret[1])) = 2

\* the text holds whitespace only
IsBlank(text) == \A i \in 1..Len(text) : IsSpace(text[i])

\* units[from:to] of Python for 0 <= from
Window(units, from, to) == SubSeq(units, from + 1, Min(to, Len(units)))

\* C24: with overlap < chunk_size, chunk j (from 0) of chunk_by_sentences is
\* the sentences at the positions j*step .. j*step + chunk_size - 1 (cut at the
\* last sentence) joined by one blank, where step = chunk_size - overlap;
\* there is one chunk for every j with j*step < number of sentences; a blank
\* text gives no chunk; no chunk is empty.
C24_SentenceWindows ==
    (fn = "chunk_by_sentences" /\ args.overlap < args.chunk_size) =>
        LET sentences == sentences_of(args.text)
            step == args.chunk_size - args.overlap
            starts == {j \in 0..Len(sentences) : j * step < Len(sentences)}
        IN  /\ raised = "none"
            /\ Len(ret) = Cardinality(starts)
            /\ \A j \in starts :
                  /\ ret[j + 1] = join(<<" ">>, Window(sentences, j * step,
                                                       j * step + args.chunk_size))
                  /\ ret[j + 1] # <<>>
            /\ IsBlank(args.text) => ret = <<>>

\* three sentences in windows of two that overlap by one: three chunks, the
\* second sentence in the first two of them
C24_Witness ==
    /\ fn = "chunk_by_sentences"
    /\ args.chunk_size = 2
    /\ args.overlap = 1
    /\ raised = "none"
    /\ Len(sentences_of(args.text)) = 3
    /\ Len(ret) = 3
    /\ sentences_of(ret[2]) = SubSeq(sentences_of(args.text), 2, 3)

\* the paragraphs chunk_by_paragraphs works on
paragraphs_of(text) == stripped_non_empty(split_blank_line(text, 1, <<>>))

\* the paragraphs of a chunk, which joins them by a blank line
GroupOf(chunk) == split_blank_line(chunk, 1, <<>>)

Front(seq) == SubSeq(seq, 1, Len(seq) - 1)

\* C25: the chunks of chunk_by_paragraphs are consecutive groups of the
\* stripped non-empty paragraphs of the text, each group joined by a blank
\* line, no paragraph lost, repeated or moved; every chunk but the last is at
\* least min_length long and would be shorter than min_length without its
\* last paragraph; the last chunk may be shorter.
C25_ParagraphGroups ==
    (fn = "chunk_by_paragraphs") =>
        /\ raised = "none"
        /\ Flatten([i \in 1..Len(ret) |-> GroupOf(ret[i])]) = paragraphs_of(args.text)
        /\ \A i \in 1..Len(ret) :
              /\ ret[i] = join(<<"\n", "\n">>, GroupOf(ret[i]))
              /\ \A p \in 1..Len(GroupOf(ret[i])) :
                    GroupOf(ret[i])[p] # <<>> /\ strip(GroupOf(ret[i])[p]) = GroupOf(ret[i])[p]
              /\ i < Len(ret) =>
                    /\ Len(ret[i]) >= args.chunk_size
                    /\ Len(join(<<"\n", "\n">>, Front(GroupOf(ret[i])))) < args.chunk_size

\* two paragraphs, the first shorter than min_length, end in one chunk
C25_Witness ==
    /\ fn = "chunk_by_paragraphs"
    /\ args.chunk_size = 2
    /\ raised = "none"
    /\ Len(paragraphs_of(args.text)) = 2
    /\ Len(ret) = 1
    /\ Len(GroupOf(ret[1])) = 2

----------------------------------------------------------------------------
(* Properties of SearchHistoryDB and of the history endpoint *)

\* C23: GET /api/v1/history with limit = n returns at most n entries
\* (count <= n), for every n >= 0 and every state of the database.
C23_HistoryAtMostLimit ==
    fn = "get_history" =>
        /\ ret.count <= args.limit
        /\ Len(ret.history) <= args.limit

\* the ids of the rows of the table
RowIds == {search_logs[i].id : i \in 1..Len(search_logs)}

\* the columns of the row with the i-th highest id
Newest(i) ==
    LET row == CHOOSE r \in {search_logs[j] : j \in 1..Len(search_logs)} :
                   Cardinality({x \in RowIds : x > r.id}) = i - 1
    IN  <<row.pattern, row.timestamp, row.match_count, row.files>>

\* C28: after any sequence of log_search and import_from_json the table
\* holds at most MAX_HISTORY rows, and they are the rows inserted last: those
\* of the highest ids given out; list_all and get_recent return them newest
\* first (get_recent the first `limit` of them).
C28_NewestRowsKept ==
    /\ Len(search_logs) <= MAX_HISTORY
    /\ Len(search_logs) = Min(sqlite_sequence, MAX_HISTORY)
    /\ RowIds = (sqlite_sequence - Len(search_logs) + 1)..sqlite_sequence
    /\ fn = "list_all" =>
          /\ Len(ret) = Len(search_logs)
          /\ \A i \in 1..Len(ret) : ret[i] = Newest(i)
    /\ fn = "get_recent" =>
          /\ Len(ret) = IF args.limit < 0 THEN Len(search_logs)
                        ELSE Min(args.limit, Len(search_logs))
          /\ \A i \in 1..Len(ret) : ret[i] = Newest(i)

\* an import into a full table has pushed the oldest rows out
C28_Witness ==
    /\ fn = "import_from_json"
    /\ raised = "none"
    /\ ~args.empty
    /\ ret = 1
    /\ Len(search_logs) = MAX_HISTORY
    /\ sqlite_sequence > MAX_HISTORY
    /\ search_logs[Len(search_logs)].pattern = "b"
    /\ search_logs[Len(search_logs)].files = json_dumps(<<>>)

\* the file holds what export_to_json writes: every entry with all its keys
IsExport(file) ==
    /\ file # None
    /\ \A i \in 1..Len(ValueOf(file)) :
          LET entry == ValueOf(file)[i]
          IN  None \notin {entry.pattern, entry.timestamp, entry.match_count, entry.files}

\* the records of an exported file as list_all returns records
RecordsOf(file) ==
    [i \in 1..Len(ValueOf(file)) |->
        LET entry == ValueOf(file)[i]
        IN  <<ValueOf(entry.pattern), ValueOf(entry.timestamp),
              ValueOf(entry.match_count), json_dumps(ValueOf(entry.files))>>]

\* C29: import_from_json of a file written by export_to_json into an empty
\* database gives a database whose list_all returns the records of the source
\* in the same newest-first order (the file holds them in that order), cut to
\* the MAX_HISTORY newest when there are more.
C29_ExportImportRoundTrip ==
    [][(fn' = "import_from_json" /\ raised' = "none" /\ args'.empty
            /\ IsExport(json_file))
          => columns(order_by_id_desc(search_logs'))
                 = SubSeq(RecordsOf(json_file), 1,
                          Min(MAX_HISTORY, Len(RecordsOf(json_file))))]_vars

----------------------------------------------------------------------------
(* Properties of the web app *)

\* C30: in every reachable state of the globals, a handler that has passed
\* its initialization guard finds history_db set, and the handler of
\* /semantic finds semantic_engine set, before it uses them; so also when
\* semantic_engine was set while history_db was None.
C30_EnginesSetAfterGuard ==
    \A t \in Threads :
        threads[t].pc = "body" =>
            /\ history_db # None
            /\ threads[t].handler = "search_semantic" => semantic_engine # None

====
